---- MODULE Spec2Model ----
(***************************************************************************)
(* Model of the market-by-order book builder of src/mbo.cpp: the           *)
(* per-token book (MBO) with its two PriceLevels, the DeltaEmitter and its *)
(* chunk frames, the receiver (apply_deltas_to_book) with its mirror       *)
(* snapshot and pending-aggressor record, and the Runner that connects     *)
(* them.  Handlers are operators from an MBO record to an MBO record; a    *)
(* failed always_assert is recorded in the field "fatal" and stops every   *)
(* later step, as abort() stops the process.                               *)
(***************************************************************************)
EXTENDS Integers, Sequences, FiniteSets, TLC

\* ------------------------------------------------------------ bounds
MaxId == 3        \* order ids 1..MaxId (0 is the reserved id)
MaxPrice == 2     \* prices 1..MaxPrice
MaxQty == 2       \* quantities 0..MaxQty
MaxResting == 2   \* new orders with fresh ids that build the book up first
MaxEvents == 2    \* input records main's loop reads after that
MaxLadder == 40   \* ask levels of the deep book
MaxBuild == 5     \* new orders of the crossing scenario

\* ------------------------------------------------- program constants
TickInfo == 0
Update == 1
Insert == 2
CrossingComplete == 3
TickInfoSize == 36
UpdateSize == 12
InsertSize == 24
CrossingCompleteSize == 1
PayloadSize == 58
MAX_CHUNKS == 20
TopLevels == 20
LastLevel == 19

VARIABLES
    g_crossing_enabled,   \* the global flag set by main from the command line
    mbos,                 \* Runner::mbos_: token -> MBO
    shm_deltas,           \* Runner::shm_deltas_
    reconstructed_books,  \* Runner::reconstructed_books_: token -> OutputRecord
    aggressor_states,     \* Runner::aggressor_states_: token -> PendingAggressorState
    delivered,            \* the snapshots the observer received from the last process_deltas
    input,                \* the input record main handed to the last process_record
    input_idx,            \* main's loop counter
    budget,               \* input records main's loop may still read
    pre_cross,            \* history: the passive side as it was before the crossing
    unapplied             \* history: the chunks of the events process_deltas has yet
                          \* to be called for, oldest first

vars == <<g_crossing_enabled, mbos, shm_deltas, reconstructed_books,
          aggressor_states, delivered, input, input_idx, budget, pre_cross, unapplied>>

\* ------------------------------------------------------------ helpers
Min(S) == CHOOSE x \in S : \A y \in S : x <= y

MinOf(a, b) == IF a <= b THEN a ELSE b

InsertAt(s, pos, x) == SubSeq(s, 1, pos - 1) \o <<x>> \o SubSeq(s, pos, Len(s))

RemoveAt(s, pos) == SubSeq(s, 1, pos - 1) \o SubSeq(s, pos + 1, Len(s))

\* F applied to x, with x worked out first, as a statement is executed
\* before the ones that follow it; x gets a name and may be used more than once
Then(x, F(_)) == IF {x} # {} THEN F(x) ELSE F(x)

\* always_assert: the first failed assertion aborts the process
Fail(m, why) == IF m.fatal = "none" THEN [m EXCEPT !.fatal = why] ELSE m

\* ------------------------------------------------------- bit packing
pack_side_index(is_ask, index) ==
    (index % 32) + (IF is_ask THEN 32 ELSE 0)

pack_side_index_shift(is_ask, index, shift) ==
    (index % 32) + (IF is_ask THEN 32 ELSE 0) + (IF shift THEN 64 ELSE 0)

unpack_side(packed) == ((packed \div 32) % 2) = 1

unpack_index(packed) == packed % 32

unpack_shift(packed) == ((packed \div 64) % 2) = 1

\* ------------------------------------------------------ DeltaEmitter
SizeOf(delta) ==
    CASE delta.type = TickInfo -> TickInfoSize
      [] delta.type = Update -> UpdateSize
      [] delta.type = Insert -> InsertSize
      [] delta.type = CrossingComplete -> CrossingCompleteSize

NewChunk(token) == [token |-> token, flags |-> 0, num_deltas |-> 0, payload |-> <<>>]

\* variant: a new chunk is opened only when the payload is already full
append_delta_late_split(m, delta) ==
    IF m.fatal # "none" THEN m
    ELSE LET fresh == m.chunks = <<>> \/ m.current_offset >= PayloadSize
         IN IF fresh /\ Len(m.chunks) >= MAX_CHUNKS
            THEN Fail(m, "chunk overflow")
            ELSE LET cs == IF fresh THEN Append(m.chunks, NewChunk(m.emit_token)) ELSE m.chunks
                     off == IF fresh THEN 0 ELSE m.current_offset
                     n == Len(cs)
                 IN [m EXCEPT
                       !.chunks = [cs EXCEPT ![n] =
                                     [@ EXCEPT !.payload = Append(@, delta),
                                               !.num_deltas = @ + 1]],
                       !.current_offset = off + SizeOf(delta)]

\* static_vector::emplace_back on a full vector throws: the process ends
append_delta(m, delta) ==
    IF m.fatal # "none" THEN m
    ELSE LET fresh == m.chunks = <<>> \/ m.current_offset + SizeOf(delta) > PayloadSize
         IN IF fresh /\ Len(m.chunks) >= MAX_CHUNKS
            THEN Fail(m, "chunk overflow")
            ELSE LET cs == IF fresh THEN Append(m.chunks, NewChunk(m.emit_token)) ELSE m.chunks
                     off == IF fresh THEN 0 ELSE m.current_offset
                     n == Len(cs)
                 IN [m EXCEPT
                       !.chunks = [cs EXCEPT ![n] =
                                     [@ EXCEPT !.payload = Append(@, delta),
                                               !.num_deltas = @ + 1]],
                       !.current_offset = off + SizeOf(delta)]

set_event(m, token, record_idx) ==
    [m EXCEPT !.emit_token = token, !.record_idx = record_idx]

emit_tick_info(m, tick_type, is_ask, is_exch, price, qty, order_id, order_id2) ==
    append_delta(m, [type |-> TickInfo,
                     tick_type |-> tick_type,
                     exch_side_flags |-> (IF is_exch THEN 1 ELSE 0) + (IF is_ask THEN 2 ELSE 0),
                     record_idx |-> m.record_idx,
                     price |-> price,
                     qty |-> qty,
                     order_id |-> order_id,
                     order_id2 |-> order_id2])

emit_update(m, is_ask, index, qty_delta, count_delta) ==
    IF m.fatal # "none" THEN m
    ELSE IF m.chunks = <<>> THEN Fail(m, "emit_tick_info() must be called before emit_update()")
    ELSE IF index >= TopLevels THEN m
    ELSE append_delta(m, [type |-> Update,
                          side_index |-> pack_side_index(is_ask, index),
                          count_delta |-> count_delta,
                          qty_delta |-> qty_delta])

\* variant: the filter takes the 20th level for one outside the window
emit_insert_filters_last(m, is_ask, index, shift, price, qty, count) ==
    IF m.fatal # "none" THEN m
    ELSE IF m.chunks = <<>> THEN Fail(m, "emit_tick_info() must be called before emit_insert()")
    ELSE IF index >= LastLevel THEN m
    ELSE append_delta(m, [type |-> Insert,
                          side_index_shift |-> pack_side_index_shift(is_ask, index, shift),
                          count |-> count,
                          price |-> price,
                          qty |-> qty])

emit_insert(m, is_ask, index, shift, price, qty, count) ==
    IF m.fatal # "none" THEN m
    ELSE IF m.chunks = <<>> THEN Fail(m, "emit_tick_info() must be called before emit_insert()")
    ELSE IF index >= TopLevels THEN m
    ELSE append_delta(m, [type |-> Insert,
                          side_index_shift |-> pack_side_index_shift(is_ask, index, shift),
                          count |-> count,
                          price |-> price,
                          qty |-> qty])

emit_crossing_complete(m) ==
    IF m.fatal # "none" THEN m
    ELSE IF m.chunks = <<>>
    THEN Fail(m, "emit_tick_info() must be called before emit_crossing_complete()")
    ELSE append_delta(m, [type |-> CrossingComplete])

\* variant: the final bit is set on the first chunk
finalize_marks_first(m) ==
    IF m.chunks # <<>>
    THEN [m EXCEPT !.chunks = [@ EXCEPT ![1] = [@ EXCEPT !.flags = 1]]]
    ELSE m

finalize(m) ==
    IF m.chunks # <<>>
    THEN [m EXCEPT !.chunks = [@ EXCEPT ![Len(m.chunks)] = [@ EXCEPT !.flags = 1]]]
    ELSE m

clear(m) == [m EXCEPT !.chunks = <<>>, !.current_offset = 0]

\* ------------------------------------------------------- PriceLevels
\* levels is the flat_map in its storage order: descending canonical price,
\* the best level last (rbegin); positions are 1-based, end() is Len + 1.
NewPriceLevels(is_ask) ==
    [is_ask |-> is_ask,
     levels |-> <<>>,
     pending_cross_fill_qty |-> 0,
     pending_cross_fill_count |-> 0,
     cross_fills |-> <<>>]

side_multiplier(is_ask) == IF is_ask THEN 1 ELSE -1

Side(m, is_ask) == IF is_ask THEN m.asks ELSE m.bids

SetSide(m, is_ask, pl) ==
    IF is_ask THEN [m EXCEPT !.asks = pl] ELSE [m EXCEPT !.bids = pl]

\* first position whose key does not come before canonical under std::greater
lower_bound(levels, canonical) ==
    LET S == {i \in 1..Len(levels) : levels[i].key <= canonical}
    IN IF S = {} THEN Len(levels) + 1 ELSE Min(S)

find(levels, canonical) ==
    LET S == {i \in 1..Len(levels) : levels[i].key = canonical}
    IN IF S = {} THEN Len(levels) + 1 ELSE Min(S)

\* size - 1 - (it - begin), with it a 1-based position
level_idx(levels, it) == Len(levels) - it

best_price(pl) ==
    IF pl.levels = <<>> THEN 0
    ELSE pl.levels[Len(pl.levels)].key * side_multiplier(pl.is_ask)

get_level_index(pl, p) ==
    LET canonical == p * side_multiplier(pl.is_ask)
        it == find(pl.levels, canonical)
    IN IF it = Len(pl.levels) + 1 THEN TopLevels
       ELSE IF level_idx(pl.levels, it) >= TopLevels THEN TopLevels
       ELSE level_idx(pl.levels, it)

pending_cross_fill_qty(pl) == pl.pending_cross_fill_qty

add_liquidity(m, is_ask, p, qty, count_delta) ==
    IF m.fatal # "none" THEN m
    ELSE IF ~(qty >= 0) THEN Fail(m, "add_liquidity requires non-negative qty")
    ELSE LET pl == Side(m, is_ask)
             canonical == p * side_multiplier(is_ask)
             it == lower_bound(pl.levels, canonical)
             inserted == it = Len(pl.levels) + 1 \/ pl.levels[it].key # canonical
         IN IF inserted
            THEN LET lv == InsertAt(pl.levels, it,
                                    [key |-> canonical, qty |-> qty, count |-> count_delta])
                 IN emit_insert(SetSide(m, is_ask, [pl EXCEPT !.levels = lv]),
                                is_ask, level_idx(lv, it), TRUE, p, qty, count_delta)
            ELSE LET lv == [pl.levels EXCEPT ![it] =
                               [@ EXCEPT !.qty = @ + qty, !.count = @ + count_delta]]
                 IN emit_update(SetSide(m, is_ask, [pl EXCEPT !.levels = lv]),
                                is_ask, level_idx(lv, it), qty, count_delta)

\* variant: the refill waits until more than 20 levels are left
remove_liquidity_late_refill(m, is_ask, p, qty, count_delta) ==
    IF m.fatal # "none" THEN m
    ELSE IF qty = 0 /\ count_delta = 0 THEN m
    ELSE LET pl == Side(m, is_ask)
             canonical == p * side_multiplier(is_ask)
             it == find(pl.levels, canonical)
         IN IF it = Len(pl.levels) + 1 THEN m
            ELSE LET idx == level_idx(pl.levels, it)
                     lv == [pl.levels EXCEPT ![it] =
                               [@ EXCEPT !.qty = @ - qty, !.count = @ - count_delta]]
                     erased == RemoveAt(lv, it)
                 IN Then(emit_update(SetSide(m, is_ask, [pl EXCEPT !.levels = lv]),
                                     is_ask, idx, -qty, -count_delta), LAMBDA m1 :
                    IF lv[it].qty > 0 THEN m1
                    ELSE Then(SetSide(m1, is_ask,
                                      [Side(m1, is_ask) EXCEPT !.levels = erased]), LAMBDA m2 :
                    IF idx < TopLevels /\ Len(erased) > TopLevels
                    THEN emit_insert(m2, is_ask, LastLevel, FALSE,
                                     erased[Len(erased) + 1 - TopLevels].key
                                         * side_multiplier(is_ask),
                                     erased[Len(erased) + 1 - TopLevels].qty,
                                     erased[Len(erased) + 1 - TopLevels].count)
                    ELSE m2))

remove_liquidity(m, is_ask, p, qty, count_delta) ==
    IF m.fatal # "none" THEN m
    ELSE IF qty = 0 /\ count_delta = 0 THEN m
    ELSE LET pl == Side(m, is_ask)
             canonical == p * side_multiplier(is_ask)
             it == find(pl.levels, canonical)
         IN IF it = Len(pl.levels) + 1 THEN m
            ELSE LET idx == level_idx(pl.levels, it)
                     lv == [pl.levels EXCEPT ![it] =
                               [@ EXCEPT !.qty = @ - qty, !.count = @ - count_delta]]
                     erased == RemoveAt(lv, it)
                 IN Then(emit_update(SetSide(m, is_ask, [pl EXCEPT !.levels = lv]),
                                     is_ask, idx, -qty, -count_delta), LAMBDA m1 :
                    IF lv[it].qty > 0 THEN m1
                    ELSE Then(SetSide(m1, is_ask,
                                      [Side(m1, is_ask) EXCEPT !.levels = erased]), LAMBDA m2 :
                    IF idx < TopLevels /\ Len(erased) >= TopLevels
                    THEN emit_insert(m2, is_ask, LastLevel, FALSE,
                                     erased[Len(erased) + 1 - TopLevels].key
                                         * side_multiplier(is_ask),
                                     erased[Len(erased) + 1 - TopLevels].qty,
                                     erased[Len(erased) + 1 - TopLevels].count)
                    ELSE m2))

\* the while loop of cross(), one iteration per level consumed; st is the
\* loop's state [m, remaining, consumed].  cross_holds is the loop condition.
cross_holds(st, is_ask, aggressor_price) ==
    LET pl == Side(st.m, is_ask)
        best == best_price(pl)
    IN /\ st.m.fatal = "none"
       /\ st.remaining > 0 /\ pl.levels # <<>>
       /\ best # 0
       /\ IF is_ask THEN best <= aggressor_price ELSE best >= aggressor_price

\* variant: a level is taken whole, whatever is left of the aggressor
cross_body_takes_level(st, is_ask) ==
    LET pl == Side(st.m, is_ask)
        best == best_price(pl)
        top == pl.levels[Len(pl.levels)]
        consume == top.qty
        pl1 == [pl EXCEPT
                  !.cross_fills = Append(@, [price |-> best, qty |-> consume,
                                             count |-> top.count]),
                  !.pending_cross_fill_count = @ + top.count]
    IN [m |-> remove_liquidity(SetSide(st.m, is_ask, pl1), is_ask, best, consume, 0),
        remaining |-> st.remaining - consume,
        consumed |-> st.consumed + consume]

\* variant: the consumption takes an order off the level's count
cross_body_counts_order(st, is_ask) ==
    LET pl == Side(st.m, is_ask)
        best == best_price(pl)
        top == pl.levels[Len(pl.levels)]
        consume == MinOf(st.remaining, top.qty)
        pl1 == [pl EXCEPT
                  !.cross_fills = Append(@, [price |-> best, qty |-> consume,
                                             count |-> top.count]),
                  !.pending_cross_fill_count = @ + top.count]
    IN [m |-> remove_liquidity(SetSide(st.m, is_ask, pl1), is_ask, best, consume, 1),
        remaining |-> st.remaining - consume,
        consumed |-> st.consumed + consume]

\* the body of the loop
cross_body(st, is_ask) ==
    LET pl == Side(st.m, is_ask)
        best == best_price(pl)
        top == pl.levels[Len(pl.levels)]
        consume == MinOf(st.remaining, top.qty)
        pl1 == [pl EXCEPT
                  !.cross_fills = Append(@, [price |-> best, qty |-> consume,
                                             count |-> top.count]),
                  !.pending_cross_fill_count = @ + top.count]
    IN [m |-> remove_liquidity(SetSide(st.m, is_ask, pl1), is_ask, best, consume, 0),
        remaining |-> st.remaining - consume,
        consumed |-> st.consumed + consume]

\* the first n iterations of the loop, taken as two halves so that a sweep
\* of many levels nests only a few evaluations
RECURSIVE cross_steps(_, _, _, _)
cross_steps(st, is_ask, aggressor_price, n) ==
    IF ~cross_holds(st, is_ask, aggressor_price) THEN st
    ELSE IF n = 1 THEN cross_body(st, is_ask)
    ELSE cross_steps(cross_steps(st, is_ask, aggressor_price, n \div 2),
                     is_ask, aggressor_price, n - n \div 2)

\* an iteration that goes on takes a level off the side, so the loop ends
\* within one iteration a level; a loop that did not would spin for ever
cross_loop(m, is_ask, aggressor_price, remaining, consumed) ==
    LET st == cross_steps([m |-> m, remaining |-> remaining, consumed |-> consumed],
                          is_ask, aggressor_price, Len(Side(m, is_ask).levels) + 1)
    IN [m |-> IF cross_holds(st, is_ask, aggressor_price)
              THEN Fail(st.m, "cross does not end") ELSE st.m,
        ret |-> st.consumed]

\* variant: cross() consumes whether crossing is enabled or not
cross_unguarded(m, is_ask, aggressor_price, aggressor_qty) ==
    LET pl == Side(m, is_ask)
        pl1 == IF pl.pending_cross_fill_qty = 0
               THEN [pl EXCEPT !.cross_fills = <<>>, !.pending_cross_fill_count = 0]
               ELSE pl
    IN Then(cross_loop(SetSide(m, is_ask, pl1), is_ask, aggressor_price,
                       aggressor_qty, 0), LAMBDA r :
       [m |-> SetSide(r.m, is_ask,
                      [Side(r.m, is_ask) EXCEPT !.pending_cross_fill_qty = @ + r.ret]),
        ret |-> r.ret])

cross(m, is_ask, aggressor_price, aggressor_qty) ==
    IF ~g_crossing_enabled THEN [m |-> m, ret |-> 0]
    ELSE LET pl == Side(m, is_ask)
             pl1 == IF pl.pending_cross_fill_qty = 0
                    THEN [pl EXCEPT !.cross_fills = <<>>, !.pending_cross_fill_count = 0]
                    ELSE pl
         IN Then(cross_loop(SetSide(m, is_ask, pl1), is_ask, aggressor_price,
                            aggressor_qty, 0), LAMBDA r :
            [m |-> SetSide(r.m, is_ask,
                           [Side(r.m, is_ask) EXCEPT !.pending_cross_fill_qty = @ + r.ret]),
             ret |-> r.ret])

\* variant: the fill is taken off the pending qty unclamped
reconcile_cross_fill_unclamped(m, is_ask, fill_qty) ==
    LET pl == Side(m, is_ask)
    IN [m |-> SetSide(m, is_ask, [pl EXCEPT !.pending_cross_fill_qty = @ - fill_qty]),
        ret |-> MinOf(fill_qty, pl.pending_cross_fill_qty)]

reconcile_cross_fill(m, is_ask, fill_qty) ==
    LET pl == Side(m, is_ask)
        reconciled == MinOf(fill_qty, pl.pending_cross_fill_qty)
    IN [m |-> SetSide(m, is_ask, [pl EXCEPT !.pending_cross_fill_qty = @ - reconciled]),
        ret |-> reconciled]

reconcile_cross_count(m, is_ask, count_delta) ==
    SetSide(m, is_ask, [Side(m, is_ask) EXCEPT !.pending_cross_fill_count = @ - count_delta])

unreserve_cross_fill(m, is_ask, qty) ==
    LET pl == Side(m, is_ask)
    IN SetSide(m, is_ask,
               [pl EXCEPT
                  !.pending_cross_fill_qty = @ - MinOf(qty, pl.pending_cross_fill_qty),
                  !.pending_cross_fill_count = IF @ > 0 THEN @ - 1 ELSE @])

\* the sums of the first loop of uncross(), over fills[lo..hi] by halves
RECURSIVE SumQtyRange(_, _, _)
SumQtyRange(fills, lo, hi) ==
    IF lo > hi THEN 0
    ELSE IF lo = hi THEN fills[lo].qty
    ELSE SumQtyRange(fills, lo, (lo + hi) \div 2)
         + SumQtyRange(fills, (lo + hi) \div 2 + 1, hi)

SumQty(fills) == SumQtyRange(fills, 1, Len(fills))

RECURSIVE SumCountRange(_, _, _)
SumCountRange(fills, lo, hi) ==
    IF lo > hi THEN 0
    ELSE IF lo = hi THEN fills[lo].count
    ELSE SumCountRange(fills, lo, (lo + hi) \div 2)
         + SumCountRange(fills, (lo + hi) \div 2 + 1, hi)

SumCount(fills) == SumCountRange(fills, 1, Len(fills))

\* variant: a level that is put back gets the whole count that was saved
uncross_body_saved_count(st, is_ask, fill) ==
    IF st.skip_qty >= fill.qty
    THEN [m |-> st.m, skip_qty |-> st.skip_qty - fill.qty,
          skip_count |-> st.skip_count - fill.count]
    ELSE LET restore_qty == fill.qty - st.skip_qty
             restore_count == fill.count
             it == find(Side(st.m, is_ask).levels, fill.price * side_multiplier(is_ask))
         IN [m |-> add_liquidity(st.m, is_ask, fill.price, restore_qty,
                                 IF it # Len(Side(st.m, is_ask).levels) + 1
                                 THEN 0 ELSE restore_count),
             skip_qty |-> 0, skip_count |-> 0]

\* the body of the second loop of uncross(), for one fill of cross_fills_;
\* st is the loop's state [m, skip_qty, skip_count]
uncross_body(st, is_ask, fill) ==
    IF st.skip_qty >= fill.qty
    THEN [m |-> st.m, skip_qty |-> st.skip_qty - fill.qty,
          skip_count |-> st.skip_count - fill.count]
    ELSE LET restore_qty == fill.qty - st.skip_qty
             restore_count == fill.count - st.skip_count
             it == find(Side(st.m, is_ask).levels, fill.price * side_multiplier(is_ask))
         IN [m |-> add_liquidity(st.m, is_ask, fill.price, restore_qty,
                                 IF it # Len(Side(st.m, is_ask).levels) + 1
                                 THEN 0 ELSE restore_count),
             skip_qty |-> 0, skip_count |-> 0]

\* the iterations for fills[lo..hi], in order, taken as two halves
RECURSIVE uncross_range(_, _, _, _, _)
uncross_range(st, is_ask, fills, lo, hi) ==
    IF lo > hi THEN st
    ELSE IF lo = hi THEN uncross_body(st, is_ask, fills[lo])
    ELSE Then(uncross_range(st, is_ask, fills, lo, (lo + hi) \div 2), LAMBDA st1 :
              uncross_range(st1, is_ask, fills, (lo + hi) \div 2 + 1, hi))

\* the second loop of uncross()
uncross_loop(m, is_ask, fills, skip_qty, skip_count) ==
    uncross_range([m |-> m, skip_qty |-> skip_qty, skip_count |-> skip_count],
                  is_ask, fills, 1, Len(fills)).m

\* variant: the log is dropped without putting the unconfirmed fills back
uncross_drops_fills(m, is_ask) ==
    SetSide(m, is_ask,
            [Side(m, is_ask) EXCEPT !.pending_cross_fill_qty = 0,
                                    !.pending_cross_fill_count = 0,
                                    !.cross_fills = <<>>])

uncross(m, is_ask) ==
    LET pl == Side(m, is_ask)
        skip_qty == SumQty(pl.cross_fills) - pl.pending_cross_fill_qty
        skip_count == SumCount(pl.cross_fills) - pl.pending_cross_fill_count
    IN Then(uncross_loop(m, is_ask, pl.cross_fills, skip_qty, skip_count), LAMBDA m1 :
       IF m1.fatal # "none" THEN m1
       ELSE SetSide(m1, is_ask,
                    [Side(m1, is_ask) EXCEPT !.pending_cross_fill_qty = 0,
                                             !.pending_cross_fill_count = 0,
                                             !.cross_fills = <<>>]))

\* variant: the order count is reset and the log is kept
clear_cross_fills_keeps_log(m, is_ask) ==
    SetSide(m, is_ask, [Side(m, is_ask) EXCEPT !.pending_cross_fill_count = 0])

clear_cross_fills(m, is_ask) ==
    SetSide(m, is_ask, [Side(m, is_ask) EXCEPT !.cross_fills = <<>>,
                                               !.pending_cross_fill_count = 0])

\* variant: the loop counts the log from its head, confirmed fills included
vwap_body_from_head(st, f, pending) ==
    LET use == MinOf(f.qty, pending - st.counted)
    IN [skip |-> 0, volume |-> st.volume + f.price * use, counted |-> st.counted + use]

\* the body of the second loop of pending_cross_vwap(), for one fill f; st
\* is the loop's state [skip, volume, counted]
vwap_body(st, f, pending) ==
    IF st.skip >= f.qty THEN [st EXCEPT !.skip = @ - f.qty]
    ELSE LET use == MinOf(f.qty - st.skip, pending - st.counted)
         IN [skip |-> 0, volume |-> st.volume + f.price * use, counted |-> st.counted + use]

\* the iterations for fills[lo..hi], taken as two halves; the loop breaks
\* once counted has reached pending
RECURSIVE vwap_range(_, _, _, _, _)
vwap_range(st, fills, pending, lo, hi) ==
    IF lo > hi \/ st.counted >= pending THEN st
    ELSE IF lo = hi THEN vwap_body(st, fills[lo], pending)
    ELSE vwap_range(vwap_range(st, fills, pending, lo, (lo + hi) \div 2),
                    fills, pending, (lo + hi) \div 2 + 1, hi)

\* the second loop of pending_cross_vwap()
vwap_loop(fills, skip, pending, volume, counted) ==
    LET st == vwap_range([skip |-> skip, volume |-> volume, counted |-> counted],
                         fills, pending, 1, Len(fills))
    IN [volume |-> st.volume, counted |-> st.counted]

\* C++ integer division truncates toward zero
TruncDiv(a, b) ==
    IF (a >= 0) = (b >= 0)
    THEN (IF a >= 0 THEN a ELSE -a) \div (IF b >= 0 THEN b ELSE -b)
    ELSE -((IF a >= 0 THEN a ELSE -a) \div (IF b >= 0 THEN b ELSE -b))

pending_cross_vwap(pl) ==
    LET pending == pl.pending_cross_fill_qty
    IN IF pending = 0 THEN [price |-> 0, qty |-> 0]
       ELSE LET skip == SumQty(pl.cross_fills) - pending
                r == vwap_loop(pl.cross_fills, skip, pending, 0, 0)
            IN [price |-> IF r.counted > 0 THEN TruncDiv(r.volume, r.counted) ELSE 0,
                qty |-> pending]

\* ---------------------------------------------------------------- MBO
NewPendingCross ==
    [aggressor_id |-> 0,
     aggressor_is_ask |-> FALSE,
     aggressor_price |-> 0,
     original_resting_price |-> 0,
     aggressor_original_qty |-> 0,
     residual_tick_type |-> "N",
     original_affected_lvl |-> TopLevels,
     aggressor_on_level |-> FALSE]

is_active(pc) == pc.aggressor_id # 0

\* variant: clear() leaves the aggressor id in place
clear_pending_keeps_id(pc) == [pc EXCEPT !.aggressor_on_level = FALSE]

clear_pending(pc) == [pc EXCEPT !.aggressor_id = 0, !.aggressor_on_level = FALSE]

NewMBO(token) ==
    [token |-> token,
     bids |-> NewPriceLevels(FALSE),
     asks |-> NewPriceLevels(TRUE),
     order_map |-> << >>,
     last_order_id |-> 0,
     pending_cross |-> NewPendingCross,
     chunks |-> << >>,
     current_offset |-> 0,
     emit_token |-> 0,
     record_idx |-> 0,
     fatal |-> "none"]

\* order_map_[id] = info
Put(om, id, info) == [x \in DOMAIN om \cup {id} |-> IF x = id THEN info ELSE om[x]]

\* order_map_.erase(it)
Erase(om, id) == [x \in DOMAIN om \ {id} |-> om[x]]

\* a step that cannot fail runs only while the process is alive
Upd(m, next) == IF m.fatal # "none" THEN m ELSE next

prepare_deltas(m, token, record_idx) == set_event(clear(m), token, record_idx)

finalize_deltas(m) == finalize(m)

\* variant: the peek takes an order at the best passive price not to cross
new_order_accept_strict_peek(m, id, is_ask, price, qty) ==
    LET passive_best == best_price(Side(m, ~is_ask))
        would_cross == g_crossing_enabled /\ passive_best # 0
                       /\ (IF is_ask THEN price < passive_best ELSE price > passive_best)
        tick_type == IF would_cross THEN "A" ELSE "N"
    IN Then(emit_tick_info([m EXCEPT !.last_order_id = id], tick_type, is_ask, ~would_cross,
                           price, qty, id, 0), LAMBDA m2 :
       Then(cross(m2, ~is_ask, price, qty), LAMBDA c :
       Then(IF ~(~would_cross \/ c.ret > 0)
            THEN Fail(c.m, "would_cross but no consumption")
            ELSE c.m, LAMBDA m3 :
       Then(IF c.ret > 0
            THEN Upd(m3, [m3 EXCEPT !.pending_cross =
                            [@ EXCEPT !.aggressor_id = id,
                                      !.aggressor_is_ask = is_ask,
                                      !.aggressor_price = price,
                                      !.aggressor_original_qty = qty,
                                      !.residual_tick_type = "N",
                                      !.aggressor_on_level = FALSE]])
            ELSE m3, LAMBDA m4 :
       Then(Upd(m4, [m4 EXCEPT !.order_map =
                       Put(@, id, [is_ask |-> is_ask, price |-> price, qty |-> qty])]),
            LAMBDA m5 :
       IF qty - c.ret > 0
       THEN Then(add_liquidity(m5, is_ask, price, qty - c.ret, 1), LAMBDA a :
                 Upd(a, [a EXCEPT !.pending_cross.aggressor_on_level = TRUE]))
       ELSE m5)))))

\* variant: the level gets the order's whole qty, not the residual
new_order_accept_rests_whole(m, id, is_ask, price, qty) ==
    LET passive_best == best_price(Side(m, ~is_ask))
        would_cross == g_crossing_enabled /\ passive_best # 0
                       /\ (IF is_ask THEN price <= passive_best ELSE price >= passive_best)
        tick_type == IF would_cross THEN "A" ELSE "N"
    IN Then(emit_tick_info([m EXCEPT !.last_order_id = id], tick_type, is_ask, ~would_cross,
                           price, qty, id, 0), LAMBDA m2 :
       Then(cross(m2, ~is_ask, price, qty), LAMBDA c :
       Then(IF ~(~would_cross \/ c.ret > 0)
            THEN Fail(c.m, "would_cross but no consumption")
            ELSE c.m, LAMBDA m3 :
       Then(IF c.ret > 0
            THEN Upd(m3, [m3 EXCEPT !.pending_cross =
                            [@ EXCEPT !.aggressor_id = id,
                                      !.aggressor_is_ask = is_ask,
                                      !.aggressor_price = price,
                                      !.aggressor_original_qty = qty,
                                      !.residual_tick_type = "N",
                                      !.aggressor_on_level = FALSE]])
            ELSE m3, LAMBDA m4 :
       Then(Upd(m4, [m4 EXCEPT !.order_map =
                       Put(@, id, [is_ask |-> is_ask, price |-> price, qty |-> qty])]),
            LAMBDA m5 :
       IF qty > 0
       THEN Then(add_liquidity(m5, is_ask, price, qty, 1), LAMBDA a :
                 Upd(a, [a EXCEPT !.pending_cross.aggressor_on_level = TRUE]))
       ELSE m5)))))

\* new_order once the guards at its top have passed (lines 863-901)
new_order_accept(m, id, is_ask, price, qty) ==
    LET passive_best == best_price(Side(m, ~is_ask))
        would_cross == g_crossing_enabled /\ passive_best # 0
                       /\ (IF is_ask THEN price <= passive_best ELSE price >= passive_best)
        tick_type == IF would_cross THEN "A" ELSE "N"
    IN Then(emit_tick_info([m EXCEPT !.last_order_id = id], tick_type, is_ask, ~would_cross,
                           price, qty, id, 0), LAMBDA m2 :
       Then(cross(m2, ~is_ask, price, qty), LAMBDA c :
       Then(IF ~(~would_cross \/ c.ret > 0)
            THEN Fail(c.m, "would_cross but no consumption")
            ELSE c.m, LAMBDA m3 :
       Then(IF c.ret > 0
            THEN Upd(m3, [m3 EXCEPT !.pending_cross =
                            [@ EXCEPT !.aggressor_id = id,
                                      !.aggressor_is_ask = is_ask,
                                      !.aggressor_price = price,
                                      !.aggressor_original_qty = qty,
                                      !.residual_tick_type = "N",
                                      !.aggressor_on_level = FALSE]])
            ELSE m3, LAMBDA m4 :
       Then(Upd(m4, [m4 EXCEPT !.order_map =
                       Put(@, id, [is_ask |-> is_ask, price |-> price, qty |-> qty])]),
            LAMBDA m5 :
       IF qty - c.ret > 0
       THEN Then(add_liquidity(m5, is_ask, price, qty - c.ret, 1), LAMBDA a :
                 Upd(a, [a EXCEPT !.pending_cross.aggressor_on_level = TRUE]))
       ELSE m5)))))

\* variant: no assertion on the crossing state
new_order_unguarded(m, id, is_ask, price, qty) ==
    IF id = 0 THEN m ELSE new_order_accept(m, id, is_ask, price, qty)

\* variant: the assertion on the crossing state comes before the id check
new_order_asserts_first(m, id, is_ask, price, qty) ==
    IF is_active(m.pending_cross)
    THEN Fail(m, "Pending cross not resolved before new_order")
    ELSE IF id = 0 THEN m
    ELSE new_order_accept(m, id, is_ask, price, qty)

new_order(m, id, is_ask, price, qty) ==
    IF id = 0 THEN m
    ELSE IF is_active(m.pending_cross)
    THEN Fail(m, "Pending cross not resolved before new_order")
    ELSE new_order_accept(m, id, is_ask, price, qty)

\* variant: a modify at the same price also takes the order off its level
\* and puts it back
modify_order_plain_moves(m, id, new_price, new_qty) ==
    LET info == m.order_map[id]
        own == info.is_ask
    IN Then(emit_tick_info(m, "M", info.is_ask, TRUE, new_price, new_qty, id, 0), LAMBDA m1 :
       Then(add_liquidity(remove_liquidity(m1, own, info.price, info.qty, 1),
                          own, new_price, new_qty, 1), LAMBDA m2 :
       Upd(m2, [m2 EXCEPT !.order_map[id] = [@ EXCEPT !.price = new_price, !.qty = new_qty]])))

\* modify_order with g_crossing_enabled false (lines 928-943)
modify_order_plain(m, id, new_price, new_qty) ==
    LET info == m.order_map[id]
        own == info.is_ask
        delta == new_qty - info.qty
    IN Then(emit_tick_info(m, "M", info.is_ask, TRUE, new_price, new_qty, id, 0), LAMBDA m1 :
       Then(IF info.price # new_price
            THEN add_liquidity(remove_liquidity(m1, own, info.price, info.qty, 1),
                               own, new_price, new_qty, 1)
            ELSE IF delta < 0
            THEN remove_liquidity(m1, own, info.price, -delta, 0)
            ELSE add_liquidity(m1, own, info.price, delta, 0), LAMBDA m2 :
       Upd(m2, [m2 EXCEPT !.order_map[id] = [@ EXCEPT !.price = new_price, !.qty = new_qty]])))

\* modify_order with g_crossing_enabled true (lines 945-987)
modify_order_crossing(m, id, new_price, new_qty) ==
    LET info == m.order_map[id]
        own == info.is_ask
        passive_best == best_price(Side(m, ~own))
        would_cross == passive_best # 0
                       /\ (IF info.is_ask THEN new_price <= passive_best
                                          ELSE new_price >= passive_best)
        tick_type == IF would_cross THEN "B" ELSE "M"
        original_affected_lvl == get_level_index(Side(m, own), info.price)
    IN Then(emit_tick_info(m, tick_type, info.is_ask, ~would_cross, new_price, new_qty, id, 0),
            LAMBDA m1 :
       Then(cross(remove_liquidity(m1, own, info.price, info.qty, 1), ~own, new_price, new_qty),
            LAMBDA c :
       Then(IF ~(~would_cross \/ c.ret > 0)
            THEN Fail(c.m, "would_cross but no consumption")
            ELSE c.m, LAMBDA m3 :
       Then(IF c.ret > 0
            THEN Upd(m3, [m3 EXCEPT !.pending_cross =
                            [@ EXCEPT !.aggressor_id = id,
                                      !.aggressor_is_ask = info.is_ask,
                                      !.aggressor_price = new_price,
                                      !.original_resting_price = info.price,
                                      !.aggressor_original_qty = info.qty,
                                      !.residual_tick_type = "M",
                                      !.original_affected_lvl = original_affected_lvl,
                                      !.aggressor_on_level = FALSE]])
            ELSE m3, LAMBDA m4 :
       Then(Upd(m4, [m4 EXCEPT !.order_map[id] =
                       [@ EXCEPT !.price = new_price, !.qty = new_qty]]), LAMBDA m5 :
       IF new_qty - c.ret > 0
       THEN Then(add_liquidity(m5, own, new_price, new_qty - c.ret, 1), LAMBDA a :
                 Upd(a, [a EXCEPT !.pending_cross.aggressor_on_level = TRUE]))
       ELSE m5)))))

modify_order(m, id, new_price, new_qty) ==
    IF id \notin DOMAIN m.order_map THEN m
    ELSE IF is_active(m.pending_cross)
    THEN Fail(m, "Pending cross not resolved before modify_order")
    ELSE IF ~g_crossing_enabled
    THEN modify_order_plain([m EXCEPT !.last_order_id = id], id, new_price, new_qty)
    ELSE modify_order_crossing([m EXCEPT !.last_order_id = id], id, new_price, new_qty)

\* variant: the aggressor's cancel ends without CrossingComplete
cancel_aggressor_no_complete(m, id) ==
    LET info == m.order_map[id]
        passive == ~m.pending_cross.aggressor_is_ask
        vwap == pending_cross_vwap(Side(m, passive))
        unconfirmed == pending_cross_fill_qty(Side(m, passive))
        residual_on_level == info.qty - unconfirmed
    IN Then(uncross(emit_tick_info(m, "C", info.is_ask, TRUE, vwap.price, vwap.qty, id, 0),
                    passive), LAMBDA m2 :
       Then(IF residual_on_level > 0 /\ m2.pending_cross.aggressor_on_level
            THEN remove_liquidity(m2, info.is_ask, info.price, residual_on_level, 1)
            ELSE m2, LAMBDA m3 :
       Then(emit_tick_info(m3, "S", info.is_ask, FALSE, info.price, info.qty, id, 0),
            LAMBDA m5 :
       Then(Upd(m5, clear_cross_fills(m5, passive)), LAMBDA m6 :
       Upd(m6, [m6 EXCEPT !.pending_cross = clear_pending(@)])))))

\* cancel of the aggressor of the active crossing (lines 1008-1040)
cancel_aggressor(m, id) ==
    LET info == m.order_map[id]
        passive == ~m.pending_cross.aggressor_is_ask
        vwap == pending_cross_vwap(Side(m, passive))
        unconfirmed == pending_cross_fill_qty(Side(m, passive))
        residual_on_level == info.qty - unconfirmed
    IN Then(uncross(emit_tick_info(m, "C", info.is_ask, TRUE, vwap.price, vwap.qty, id, 0),
                    passive), LAMBDA m2 :
       Then(IF residual_on_level > 0 /\ m2.pending_cross.aggressor_on_level
            THEN remove_liquidity(m2, info.is_ask, info.price, residual_on_level, 1)
            ELSE m2, LAMBDA m3 :
       Then(emit_crossing_complete(
                emit_tick_info(m3, "S", info.is_ask, FALSE, info.price, info.qty, id, 0)),
            LAMBDA m5 :
       Then(Upd(m5, clear_cross_fills(m5, passive)), LAMBDA m6 :
       Upd(m6, [m6 EXCEPT !.pending_cross = clear_pending(@)])))))

\* cancel of a passive order the active crossing consumed from (lines 1067-1102)
cancel_passive_consumed(m, id, consumed_from_order) ==
    LET info == m.order_map[id]
        pc == m.pending_cross
        passive == ~pc.aggressor_is_ask
        vwap == pending_cross_vwap(Side(m, passive))
        remaining_on_level == info.qty - consumed_from_order
    IN Then(remove_liquidity(
                emit_tick_info(m, "C", info.is_ask, TRUE, vwap.price, vwap.qty,
                               id, pc.aggressor_id),
                info.is_ask, info.price, remaining_on_level, 1), LAMBDA m2 :
       Then(cross(Upd(m2, unreserve_cross_fill(m2, passive, consumed_from_order)),
                  passive, pc.aggressor_price, consumed_from_order), LAMBDA c :
       Then(IF consumed_from_order - c.ret > 0
            THEN Then(add_liquidity(c.m, pc.aggressor_is_ask, pc.aggressor_price,
                                    consumed_from_order - c.ret,
                                    IF pc.aggressor_on_level THEN 0 ELSE 1), LAMBDA a :
                      Upd(a, [a EXCEPT !.pending_cross.aggressor_on_level = TRUE]))
            ELSE c.m, LAMBDA m4 :
       Then(emit_tick_info(m4, "S", info.is_ask, FALSE, info.price, info.qty,
                           id, pc.aggressor_id), LAMBDA m5 :
       IF m5.fatal = "none" /\ pending_cross_fill_qty(Side(m5, passive)) = 0
       THEN Then(emit_crossing_complete(m5), LAMBDA m6 :
            Then(Upd(m6, clear_cross_fills(m6, passive)), LAMBDA m7 :
            Upd(m7, [m7 EXCEPT !.pending_cross = clear_pending(@)])))
       ELSE m5))))

\* variant: the X of a regular cancel is flagged as an exchange tick
cancel_regular_exch(m, id) ==
    remove_liquidity(
        emit_tick_info(m, "X", m.order_map[id].is_ask, TRUE, m.order_map[id].price,
                       m.order_map[id].qty, id, 0),
        m.order_map[id].is_ask, m.order_map[id].price, m.order_map[id].qty, 1)

\* the regular cancel; is_exch is what the caller passes to emit_tick_info
cancel_regular(m, id) ==
    remove_liquidity(
        emit_tick_info(m, "X", m.order_map[id].is_ask, FALSE, m.order_map[id].price,
                       m.order_map[id].qty, id, 0),
        m.order_map[id].is_ask, m.order_map[id].price, m.order_map[id].qty, 1)

\* variant: the cancel of an unknown id also gives up the crossing
cancel_order_unknown_clears(m, id) ==
    IF id \notin DOMAIN m.order_map
    THEN emit_tick_info([m EXCEPT !.pending_cross = clear_pending(@)],
                        "X", FALSE, TRUE, 0, 0, id, 0)
    ELSE LET info == m.order_map[id]
             pc == m.pending_cross
             is_aggressor_cancel == is_active(pc) /\ id = pc.aggressor_id
             is_passive_cancel_during_crossing ==
                 is_active(pc) /\ info.is_ask # pc.aggressor_is_ask
                 /\ (IF pc.aggressor_is_ask THEN pc.aggressor_price <= info.price
                                            ELSE pc.aggressor_price >= info.price)
             consumed_from_order ==
                 MinOf(info.qty, pending_cross_fill_qty(Side(m, ~pc.aggressor_is_ask)))
         IN Then(IF is_aggressor_cancel THEN cancel_aggressor(m, id)
                 ELSE IF is_passive_cancel_during_crossing /\ consumed_from_order # 0
                 THEN cancel_passive_consumed(m, id, consumed_from_order)
                 ELSE cancel_regular(m, id), LAMBDA m1 :
            Upd(m1, [m1 EXCEPT !.order_map = Erase(@, id)]))

cancel_order(m, id) ==
    IF id \notin DOMAIN m.order_map
    THEN emit_tick_info(m, "X", FALSE, TRUE, 0, 0, id, 0)
    ELSE LET info == m.order_map[id]
             pc == m.pending_cross
             is_aggressor_cancel == is_active(pc) /\ id = pc.aggressor_id
             is_passive_cancel_during_crossing ==
                 is_active(pc) /\ info.is_ask # pc.aggressor_is_ask
                 /\ (IF pc.aggressor_is_ask THEN pc.aggressor_price <= info.price
                                            ELSE pc.aggressor_price >= info.price)
             consumed_from_order ==
                 MinOf(info.qty, pending_cross_fill_qty(Side(m, ~pc.aggressor_is_ask)))
         IN Then(IF is_aggressor_cancel THEN cancel_aggressor(m, id)
                 ELSE IF is_passive_cancel_during_crossing /\ consumed_from_order # 0
                 THEN cancel_passive_consumed(m, id, consumed_from_order)
                 ELSE cancel_regular(m, id), LAMBDA m1 :
            Upd(m1, [m1 EXCEPT !.order_map = Erase(@, id)]))

\* variant: the leg is taken without the overfill assertion
trade_leg_unchecked(m, id, fill_qty, remaining, reconciled, passive) ==
    IF m.fatal # "none" THEN m
    ELSE LET info == m.order_map[id]
             qty1 == info.qty - fill_qty
         IN Then(IF remaining > 0
                 THEN remove_liquidity([m EXCEPT !.order_map[id].qty = qty1],
                                       info.is_ask, info.price, remaining,
                                       IF qty1 = 0 THEN 1 ELSE 0)
                 ELSE IF qty1 = 0
                 THEN remove_liquidity([m EXCEPT !.order_map[id].qty = qty1],
                                       info.is_ask, info.price, 0, 1)
                 ELSE [m EXCEPT !.order_map[id].qty = qty1], LAMBDA m2 :
            Then(IF reconciled > 0 /\ qty1 = 0
                    /\ info.is_ask # m2.pending_cross.aggressor_is_ask
                 THEN Upd(m2, reconcile_cross_count(m2, passive, 1))
                 ELSE m2, LAMBDA m3 :
            IF qty1 = 0
            THEN Upd(m3, [m3 EXCEPT !.order_map = Erase(@, id)])
            ELSE m3))

\* variant: a leg left with qty and nothing to remove still emits a zero-delta
\* Update at its level
trade_leg_marks_level(m, id, fill_qty, remaining, reconciled, passive) ==
    IF m.fatal # "none" THEN m
    ELSE LET info == m.order_map[id]
             qty1 == info.qty - fill_qty
         IN IF ~(fill_qty <= info.qty)
            THEN Fail(m, "Trade overfill detected: fill_qty exceeds order qty")
            ELSE Then(IF remaining > 0
                      THEN remove_liquidity([m EXCEPT !.order_map[id].qty = qty1],
                                            info.is_ask, info.price, remaining,
                                            IF qty1 = 0 THEN 1 ELSE 0)
                      ELSE IF qty1 = 0
                      THEN remove_liquidity([m EXCEPT !.order_map[id].qty = qty1],
                                            info.is_ask, info.price, 0, 1)
                      ELSE emit_update([m EXCEPT !.order_map[id].qty = qty1], info.is_ask,
                                       get_level_index(Side(m, info.is_ask), info.price),
                                       0, 0), LAMBDA m2 :
                 Then(IF reconciled > 0 /\ qty1 = 0
                         /\ info.is_ask # m2.pending_cross.aggressor_is_ask
                      THEN Upd(m2, reconcile_cross_count(m2, passive, 1))
                      ELSE m2, LAMBDA m3 :
                 IF qty1 = 0
                 THEN Upd(m3, [m3 EXCEPT !.order_map = Erase(@, id)])
                 ELSE m3))

\* variant: a filled order stays in the id map with qty 0
trade_leg_keeps_filled(m, id, fill_qty, remaining, reconciled, passive) ==
    IF m.fatal # "none" THEN m
    ELSE LET info == m.order_map[id]
             qty1 == info.qty - fill_qty
         IN IF ~(fill_qty <= info.qty)
            THEN Fail(m, "Trade overfill detected: fill_qty exceeds order qty")
            ELSE Then(IF remaining > 0
                      THEN remove_liquidity([m EXCEPT !.order_map[id].qty = qty1],
                                            info.is_ask, info.price, remaining,
                                            IF qty1 = 0 THEN 1 ELSE 0)
                      ELSE IF qty1 = 0
                      THEN remove_liquidity([m EXCEPT !.order_map[id].qty = qty1],
                                            info.is_ask, info.price, 0, 1)
                      ELSE [m EXCEPT !.order_map[id].qty = qty1], LAMBDA m2 :
                 IF reconciled > 0 /\ qty1 = 0
                    /\ info.is_ask # m2.pending_cross.aggressor_is_ask
                 THEN Upd(m2, reconcile_cross_count(m2, passive, 1))
                 ELSE m2)

\* one iteration of the loop over {bid_it, ask_it} in trade()
trade_leg(m, id, fill_qty, remaining, reconciled, passive) ==
    IF m.fatal # "none" THEN m
    ELSE LET info == m.order_map[id]
             qty1 == info.qty - fill_qty
         IN IF ~(fill_qty <= info.qty)
            THEN Fail(m, "Trade overfill detected: fill_qty exceeds order qty")
            ELSE Then(IF remaining > 0
                      THEN remove_liquidity([m EXCEPT !.order_map[id].qty = qty1],
                                            info.is_ask, info.price, remaining,
                                            IF qty1 = 0 THEN 1 ELSE 0)
                      ELSE IF qty1 = 0
                      THEN remove_liquidity([m EXCEPT !.order_map[id].qty = qty1],
                                            info.is_ask, info.price, 0, 1)
                      ELSE [m EXCEPT !.order_map[id].qty = qty1], LAMBDA m2 :
                 Then(IF reconciled > 0 /\ qty1 = 0
                         /\ info.is_ask # m2.pending_cross.aggressor_is_ask
                      THEN Upd(m2, reconcile_cross_count(m2, passive, 1))
                      ELSE m2, LAMBDA m3 :
                 IF qty1 = 0
                 THEN Upd(m3, [m3 EXCEPT !.order_map = Erase(@, id)])
                 ELSE m3))

\* variant: the end of the crossing is signalled only when the aggressor has
\* qty left
trade_completion_residual_only(m) ==
    IF m.fatal # "none" \/ ~is_active(m.pending_cross) THEN m
    ELSE LET pc == m.pending_cross
             cross_passive == ~pc.aggressor_is_ask
             has_residual == pc.aggressor_id \in DOMAIN m.order_map
                             /\ m.order_map[pc.aggressor_id].qty > 0
         IN IF pending_cross_fill_qty(Side(m, cross_passive)) # 0 THEN m
            ELSE Then(clear_cross_fills(m, cross_passive), LAMBDA m1 :
                 Then(IF ~has_residual /\ pc.residual_tick_type = "M"
                      THEN emit_update(
                               emit_tick_info(m1, "X", pc.aggressor_is_ask, FALSE,
                                              pc.original_resting_price,
                                              pc.aggressor_original_qty,
                                              pc.aggressor_id, 0),
                               pc.aggressor_is_ask, pc.original_affected_lvl, 0, 0)
                      ELSE IF has_residual
                      THEN emit_crossing_complete(m1)
                      ELSE m1, LAMBDA m2 :
                 Upd(m2, [m2 EXCEPT !.pending_cross = clear_pending(@)])))

\* variant: the X of a consumed modify carries the crossing price
trade_completion_at_crossing_price(m) ==
    IF m.fatal # "none" \/ ~is_active(m.pending_cross) THEN m
    ELSE LET pc == m.pending_cross
             cross_passive == ~pc.aggressor_is_ask
             has_residual == pc.aggressor_id \in DOMAIN m.order_map
                             /\ m.order_map[pc.aggressor_id].qty > 0
         IN IF pending_cross_fill_qty(Side(m, cross_passive)) # 0 THEN m
            ELSE Then(clear_cross_fills(m, cross_passive), LAMBDA m1 :
                 Then(IF ~has_residual /\ pc.residual_tick_type = "M"
                      THEN emit_update(
                               emit_tick_info(m1, "X", pc.aggressor_is_ask, FALSE,
                                              pc.aggressor_price,
                                              pc.aggressor_original_qty,
                                              pc.aggressor_id, 0),
                               pc.aggressor_is_ask, pc.original_affected_lvl, 0, 0)
                      ELSE IF has_residual \/ pc.residual_tick_type = "N"
                      THEN emit_crossing_complete(m1)
                      ELSE m1, LAMBDA m2 :
                 Upd(m2, [m2 EXCEPT !.pending_cross = clear_pending(@)])))

\* the end of trade(): the crossing is complete when nothing is pending (lines 1179-1207)
trade_completion(m) ==
    IF m.fatal # "none" \/ ~is_active(m.pending_cross) THEN m
    ELSE LET pc == m.pending_cross
             cross_passive == ~pc.aggressor_is_ask
             has_residual == pc.aggressor_id \in DOMAIN m.order_map
                             /\ m.order_map[pc.aggressor_id].qty > 0
         IN IF pending_cross_fill_qty(Side(m, cross_passive)) # 0 THEN m
            ELSE Then(clear_cross_fills(m, cross_passive), LAMBDA m1 :
                 Then(IF ~has_residual /\ pc.residual_tick_type = "M"
                      THEN emit_update(
                               emit_tick_info(m1, "X", pc.aggressor_is_ask, FALSE,
                                              pc.original_resting_price,
                                              pc.aggressor_original_qty,
                                              pc.aggressor_id, 0),
                               pc.aggressor_is_ask, pc.original_affected_lvl, 0, 0)
                      ELSE IF has_residual \/ pc.residual_tick_type = "N"
                      THEN emit_crossing_complete(m1)
                      ELSE m1, LAMBDA m2 :
                 Upd(m2, [m2 EXCEPT !.pending_cross = clear_pending(@)])))

\* variant: with one id in the id map the aggressor is taken to be that side
trade_aggressor_in_book(m, bid_id, ask_id, price, fill_qty) ==
    LET bid_in_book == bid_id # 0 /\ bid_id \in DOMAIN m.order_map
        ask_in_book == ask_id # 0 /\ ask_id \in DOMAIN m.order_map
    IN IF bid_in_book /\ m.order_map[bid_id].is_ask
       THEN Fail(m, "bid_it names an ask order")
       ELSE IF ask_in_book /\ ~m.order_map[ask_id].is_ask
       THEN Fail(m, "ask_it names a bid order")
       ELSE LET aggressor_is_ask == IF bid_in_book # ask_in_book THEN ask_in_book
                                    ELSE ask_id = m.last_order_id
                aggressor_in_book == IF aggressor_is_ask THEN ask_in_book ELSE bid_in_book
                aggressor_id == IF aggressor_is_ask THEN ask_id ELSE bid_id
                tick_type == IF aggressor_id = 0 THEN "D"
                             ELSE IF ~aggressor_in_book THEN "E" ELSE "T"
                passive == ~aggressor_is_ask
            IN Then(emit_tick_info(m, tick_type, aggressor_is_ask, TRUE, price, fill_qty,
                                   bid_id, ask_id), LAMBDA m1 :
               Then(reconcile_cross_fill(m1, passive, fill_qty), LAMBDA rc :
               Then(IF rc.ret > 0
                    THEN emit_update(emit_update(Upd(m1, rc.m), ~aggressor_is_ask, 0, 0, 0),
                                     aggressor_is_ask, 0, 0, 0)
                    ELSE Upd(m1, rc.m), LAMBDA m3 :
               Then(IF bid_in_book
                    THEN trade_leg(m3, bid_id, fill_qty, fill_qty - rc.ret, rc.ret, passive)
                    ELSE m3, LAMBDA m4 :
               trade_completion(
                   IF ask_in_book
                   THEN trade_leg(m4, ask_id, fill_qty, fill_qty - rc.ret, rc.ret, passive)
                   ELSE m4)))))

trade(m, bid_id, ask_id, price, fill_qty) ==
    LET bid_in_book == bid_id # 0 /\ bid_id \in DOMAIN m.order_map
        ask_in_book == ask_id # 0 /\ ask_id \in DOMAIN m.order_map
    IN IF bid_in_book /\ m.order_map[bid_id].is_ask
       THEN Fail(m, "bid_it names an ask order")
       ELSE IF ask_in_book /\ ~m.order_map[ask_id].is_ask
       THEN Fail(m, "ask_it names a bid order")
       ELSE LET aggressor_is_ask == IF bid_in_book # ask_in_book THEN bid_in_book
                                    ELSE ask_id = m.last_order_id
                aggressor_in_book == IF aggressor_is_ask THEN ask_in_book ELSE bid_in_book
                aggressor_id == IF aggressor_is_ask THEN ask_id ELSE bid_id
                tick_type == IF aggressor_id = 0 THEN "D"
                             ELSE IF ~aggressor_in_book THEN "E" ELSE "T"
                passive == ~aggressor_is_ask
            IN Then(emit_tick_info(m, tick_type, aggressor_is_ask, TRUE, price, fill_qty,
                                   bid_id, ask_id), LAMBDA m1 :
               Then(reconcile_cross_fill(m1, passive, fill_qty), LAMBDA rc :
               Then(IF rc.ret > 0
                    THEN emit_update(emit_update(Upd(m1, rc.m), ~aggressor_is_ask, 0, 0, 0),
                                     aggressor_is_ask, 0, 0, 0)
                    ELSE Upd(m1, rc.m), LAMBDA m3 :
               Then(IF bid_in_book
                    THEN trade_leg(m3, bid_id, fill_qty, fill_qty - rc.ret, rc.ret, passive)
                    ELSE m3, LAMBDA m4 :
               trade_completion(
                   IF ask_in_book
                   THEN trade_leg(m4, ask_id, fill_qty, fill_qty - rc.ret, rc.ret, passive)
                   ELSE m4)))))

\* ----------------------------------------------------------- receiver
ZeroLevel == [price |-> 0, qty |-> 0, num_orders |-> 0]

\* a value-initialised OutputRecord (what operator[] creates for a new token)
NewOutputRecord ==
    [record_idx |-> 0,
     token |-> 0,
     event |-> [tick_type |-> "", is_ask |-> FALSE, price |-> 0, qty |-> 0,
                order_id |-> 0, order_id2 |-> 0],
     ltp |-> 0,
     ltq |-> 0,
     bid_affected_lvl |-> 0,
     ask_affected_lvl |-> 0,
     bid_filled_lvls |-> 0,
     ask_filled_lvls |-> 0,
     is_ask |-> FALSE,
     bids |-> [j \in 1..TopLevels |-> ZeroLevel],
     asks |-> [j \in 1..TopLevels |-> ZeroLevel]]

NewPendingAggressorState ==
    [aggressor_id |-> 0,
     aggressor_is_ask |-> FALSE,
     aggressor_price |-> 0,
     aggressor_original_qty |-> 0,
     aggressor_remaining |-> 0,
     original_tick_type |-> "",
     crossing_complete |-> FALSE]

agg_is_active(agg) == agg.aggressor_id # 0

agg_clear(agg) ==
    [agg EXCEPT !.aggressor_id = 0, !.original_tick_type = "", !.crossing_complete = FALSE]

agg_set(agg, id, is_ask, price, qty, tick_type) ==
    [agg EXCEPT !.aggressor_id = id,
                !.aggressor_is_ask = is_ask,
                !.aggressor_price = price,
                !.aggressor_original_qty = qty,
                !.aggressor_remaining = qty,
                !.original_tick_type = tick_type]

agg_on_trade(agg, fill_qty) == [agg EXCEPT !.aggressor_remaining = @ - fill_qty]

filled_lvls(book) == Cardinality({j \in 1..TopLevels : book[j].price # 0})

\* stamp the affected levels and the filled-level counts on the snapshot
stamp_levels(rec, affected) ==
    [rec EXCEPT !.bid_affected_lvl = affected[1],
                !.ask_affected_lvl = affected[2],
                !.bid_filled_lvls = filled_lvls(rec.bids),
                !.ask_filled_lvls = filled_lvls(rec.asks)]

\* variant: the last index touched, not the least
touch_last(affected, is_ask, idx) ==
    IF is_ask THEN <<affected[1], idx>> ELSE <<idx, affected[2]>>

\* affected_lvl[is_ask] = min(affected_lvl[is_ask], idx)
touch(affected, is_ask, idx) ==
    IF is_ask THEN <<affected[1], MinOf(affected[2], idx)>>
    ELSE <<MinOf(affected[1], idx), affected[2]>>

\* an Update applied to one side's array (idx is 0-based)
apply_update(book, idx, delta) ==
    LET b1 == [book EXCEPT ![idx + 1] =
                  [@ EXCEPT !.qty = @ + delta.qty_delta,
                            !.num_orders = @ + delta.count_delta]]
    IN IF b1[idx + 1].qty <= 0
       THEN [j \in 1..TopLevels |->
               IF j < idx + 1 THEN b1[j]
               ELSE IF j < TopLevels THEN b1[j + 1]
               ELSE ZeroLevel]
       ELSE b1

\* an Insert applied to one side's array (idx is 0-based)
apply_insert(book, idx, shift, delta) ==
    LET b1 == IF shift
              THEN [j \in 1..TopLevels |-> IF j <= idx + 1 THEN book[j] ELSE book[j - 1]]
              ELSE book
    IN [b1 EXCEPT ![idx + 1] =
          [price |-> delta.price, qty |-> delta.qty, num_orders |-> delta.count]]

tick_side(delta) == ((delta.exch_side_flags \div 2) % 2) = 1

tick_is_exch(delta) == (delta.exch_side_flags % 2) = 1

on_tick_info(st, delta) ==
    IF delta.tick_type = "S" /\ agg_is_active(st.agg)
    THEN [st EXCEPT !.self_trade_cancel_full_qty = delta.qty,
                    !.self_trade_cancel_price = delta.price]
    ELSE LET is_ask == tick_side(delta)
             st1 == IF st.seen_tick_info
                    THEN [st EXCEPT !.extras = Append(@, stamp_levels(st.rec, st.affected_lvl)),
                                    !.rec = stamp_levels(st.rec, st.affected_lvl),
                                    !.affected_lvl = <<TopLevels, TopLevels>>]
                    ELSE st
             rec1 == [st1.rec EXCEPT
                        !.record_idx = delta.record_idx,
                        !.event = [tick_type |-> delta.tick_type,
                                   is_ask |-> is_ask,
                                   price |-> delta.price,
                                   qty |-> delta.qty,
                                   order_id |-> delta.order_id,
                                   order_id2 |-> delta.order_id2],
                        !.is_ask = is_ask]
             agg1 == IF delta.tick_type \in {"A", "B"}
                     THEN agg_set(st1.agg, delta.order_id, is_ask, delta.price, delta.qty,
                                  delta.tick_type)
                     ELSE st1.agg
             agg2 == IF delta.tick_type \in {"T", "D", "E"} /\ agg_is_active(agg1)
                     THEN agg_on_trade(agg1, delta.qty)
                     ELSE agg1
             rec2 == IF delta.tick_type = "T"
                     THEN [rec1 EXCEPT !.ltp = delta.price, !.ltq = delta.qty]
                     ELSE rec1
         IN [st1 EXCEPT !.seen_tick_info = TRUE, !.rec = rec2, !.agg = agg2]

on_update(st, delta) ==
    LET is_ask == unpack_side(delta.side_index)
        idx == unpack_index(delta.side_index)
    IN [st EXCEPT
          !.affected_lvl = touch(@, is_ask, idx),
          !.rec = IF is_ask THEN [@ EXCEPT !.asks = apply_update(@, idx, delta)]
                  ELSE [@ EXCEPT !.bids = apply_update(@, idx, delta)]]

on_insert(st, delta) ==
    LET is_ask == unpack_side(delta.side_index_shift)
        idx == unpack_index(delta.side_index_shift)
        shift == unpack_shift(delta.side_index_shift)
    IN [st EXCEPT
          !.affected_lvl = IF shift THEN touch(@, is_ask, idx) ELSE @,
          !.rec = IF is_ask THEN [@ EXCEPT !.asks = apply_insert(@, idx, shift, delta)]
                  ELSE [@ EXCEPT !.bids = apply_insert(@, idx, shift, delta)]]

\* variant: the N or M for what is left carries the qty the crossing began with
on_crossing_complete_original_qty(st) ==
    LET is_self_trade == st.rec.event.tick_type = "C"
        agg == st.agg
        need_residual == agg.aggressor_remaining > 0
        need_cancel == ~need_residual /\ agg.original_tick_type = "B"
        st1 == IF agg_is_active(agg) /\ ~is_self_trade /\ (need_residual \/ need_cancel)
               THEN LET pushed == stamp_levels(st.rec, st.affected_lvl)
                        ev == IF need_residual
                              THEN [tick_type |-> IF agg.original_tick_type = "A"
                                                  THEN "N" ELSE "M",
                                    is_ask |-> agg.aggressor_is_ask,
                                    price |-> agg.aggressor_price,
                                    qty |-> agg.aggressor_original_qty,
                                    order_id |-> agg.aggressor_id,
                                    order_id2 |-> 0]
                              ELSE [tick_type |-> "X",
                                    is_ask |-> agg.aggressor_is_ask,
                                    price |-> agg.aggressor_price,
                                    qty |-> agg.aggressor_original_qty,
                                    order_id |-> agg.aggressor_id,
                                    order_id2 |-> 0]
                    IN [st EXCEPT !.extras = Append(@, pushed),
                                  !.rec = [pushed EXCEPT !.event = ev,
                                                         !.is_ask = agg.aggressor_is_ask]]
               ELSE st
    IN IF ~is_self_trade
       THEN [st1 EXCEPT !.agg = agg_clear(@)]
       ELSE [st1 EXCEPT !.agg = [@ EXCEPT !.crossing_complete = TRUE]]

on_crossing_complete(st) ==
    LET is_self_trade == st.rec.event.tick_type = "C"
        agg == st.agg
        need_residual == agg.aggressor_remaining > 0
        need_cancel == ~need_residual /\ agg.original_tick_type = "B"
        st1 == IF agg_is_active(agg) /\ ~is_self_trade /\ (need_residual \/ need_cancel)
               THEN LET pushed == stamp_levels(st.rec, st.affected_lvl)
                        ev == IF need_residual
                              THEN [tick_type |-> IF agg.original_tick_type = "A"
                                                  THEN "N" ELSE "M",
                                    is_ask |-> agg.aggressor_is_ask,
                                    price |-> agg.aggressor_price,
                                    qty |-> agg.aggressor_remaining,
                                    order_id |-> agg.aggressor_id,
                                    order_id2 |-> 0]
                              ELSE [tick_type |-> "X",
                                    is_ask |-> agg.aggressor_is_ask,
                                    price |-> agg.aggressor_price,
                                    qty |-> agg.aggressor_original_qty,
                                    order_id |-> agg.aggressor_id,
                                    order_id2 |-> 0]
                    IN [st EXCEPT !.extras = Append(@, pushed),
                                  !.rec = [pushed EXCEPT !.event = ev,
                                                         !.is_ask = agg.aggressor_is_ask]]
               ELSE st
    IN IF ~is_self_trade
       THEN [st1 EXCEPT !.agg = agg_clear(@)]
       ELSE [st1 EXCEPT !.agg = [@ EXCEPT !.crossing_complete = TRUE]]

\* the inner loop: delta i of the chunk, at byte offset of the payload
RECURSIVE apply_chunk(_, _, _, _)
apply_chunk(st, chunk, i, offset) ==
    IF ~(i < chunk.num_deltas /\ offset < PayloadSize) THEN st
    ELSE LET delta == chunk.payload[i + 1]
         IN Then(CASE delta.type = TickInfo -> on_tick_info(st, delta)
                   [] delta.type = Update -> on_update(st, delta)
                   [] delta.type = Insert -> on_insert(st, delta)
                   [] delta.type = CrossingComplete -> on_crossing_complete(st),
                 LAMBDA st1 : apply_chunk(st1, chunk, i + 1, offset + SizeOf(delta)))

RECURSIVE apply_chunks(_, _)
apply_chunks(st, chunks) ==
    IF chunks = <<>> THEN st
    ELSE Then(apply_chunk([st EXCEPT !.rec.token = chunks[1].token], chunks[1], 0, 0),
              LAMBDA st1 : apply_chunks(st1, Tail(chunks)))

\* the expansion of a C tick into C + S (+ N/M) at the end of apply_deltas_to_book
c_expansion(st) ==
    LET rec == st.rec
        agg == st.agg
        aggressor_side == agg.aggressor_is_ask
        is_aggressor_cancel == rec.event.order_id = agg.aggressor_id
        rec_c == [rec EXCEPT !.event.is_ask = aggressor_side,
                             !.is_ask = aggressor_side,
                             !.bid_affected_lvl = 0,
                             !.ask_affected_lvl = 0]
        s_price == IF st.self_trade_cancel_full_qty > 0
                   THEN st.self_trade_cancel_price ELSE rec_c.event.price
        s_qty == IF st.self_trade_cancel_full_qty > 0
                 THEN st.self_trade_cancel_full_qty ELSE rec_c.event.qty
    IN IF is_aggressor_cancel
       THEN LET rec_s == [rec_c EXCEPT !.event.tick_type = "S",
                                       !.event.price = s_price,
                                       !.event.qty = s_qty,
                                       !.bid_affected_lvl = TopLevels,
                                       !.ask_affected_lvl = TopLevels]
            IN [rec |-> rec_c, agg |-> agg_clear(agg),
                extras |-> Append(st.extras, rec_s), ret |-> 2]
       ELSE LET cancelled_side == ~aggressor_side
                rec_s == [rec_c EXCEPT !.event.tick_type = "S",
                                       !.event.is_ask = cancelled_side,
                                       !.event.price = s_price,
                                       !.event.qty = s_qty,
                                       !.is_ask = cancelled_side,
                                       !.bid_affected_lvl = TopLevels,
                                       !.ask_affected_lvl = TopLevels]
                rec_n == [rec_c EXCEPT
                            !.event = [tick_type |->
                                           IF agg.crossing_complete
                                           THEN (IF agg.original_tick_type = "A"
                                                 THEN "N" ELSE "M")
                                           ELSE agg.original_tick_type,
                                       is_ask |-> aggressor_side,
                                       price |-> agg.aggressor_price,
                                       qty |-> agg.aggressor_remaining,
                                       order_id |-> agg.aggressor_id,
                                       order_id2 |-> 0],
                            !.is_ask = aggressor_side,
                            !.bid_affected_lvl = IF aggressor_side THEN TopLevels ELSE @,
                            !.ask_affected_lvl = IF aggressor_side THEN @ ELSE TopLevels]
            IN [rec |-> rec_c,
                agg |-> IF agg.crossing_complete THEN agg_clear(agg) ELSE agg,
                extras |-> Append(Append(st.extras, rec_s), rec_n), ret |-> 3]

apply_deltas_to_book(rec, chunks, agg_state) ==
    Then(apply_chunks([rec |-> rec, agg |-> agg_state, extras |-> <<>>,
                       affected_lvl |-> <<TopLevels, TopLevels>>,
                       seen_tick_info |-> FALSE,
                       self_trade_cancel_full_qty |-> 0,
                       self_trade_cancel_price |-> 0], chunks), LAMBDA st1 :
    Then([st1 EXCEPT !.rec = stamp_levels(@, st1.affected_lvl)], LAMBDA st2 :
    IF st2.rec.event.tick_type = "C" /\ agg_is_active(st2.agg)
    THEN c_expansion(st2)
    ELSE [rec |-> st2.rec, agg |-> st2.agg, extras |-> st2.extras, ret |-> 1]))

\* ------------------------------------------------------------- Runner
\* mbos_.find(token), or the MBO that emplace creates
mbo_of(books, token) == IF token \in DOMAIN books THEN books[token] ELSE NewMBO(token)

\* the switch on tick_type in process_record
dispatch(m, rec) ==
    CASE rec.tick_type = "N" -> new_order(m, rec.order_id, rec.is_ask, rec.price, rec.qty)
      [] rec.tick_type = "M" -> modify_order(m, rec.order_id, rec.price, rec.qty)
      [] rec.tick_type = "X" -> cancel_order(m, rec.order_id)
      [] rec.tick_type = "T" -> trade(m, rec.order_id, rec.order_id2, rec.price, rec.qty)
      [] OTHER -> m

\* process_record: the MBO after the handler and the new content of shm_deltas_;
\* an abort inside the handler leaves shm_deltas_ as it was
process_record(books, shm, rec) ==
    Then(dispatch(prepare_deltas(mbo_of(books, rec.token), rec.token, rec.record_idx), rec),
         LAMBDA m2 :
    Then(IF m2.fatal = "none" THEN finalize_deltas(m2) ELSE m2, LAMBDA m3 :
    [mbos |-> (rec.token :> m3) @@ books,
     shm_deltas |-> IF m3.fatal = "none" THEN m3.chunks ELSE shm,
     fatal |-> m3.fatal # "none"]))

\* variant: the mirror always goes to the observer first
process_deltas_main_first(shm, books, aggs) ==
    IF shm = <<>>
    THEN [reconstructed_books |-> books, aggressor_states |-> aggs, delivered |-> <<>>]
    ELSE LET token == shm[1].token
             reconstructed == IF token \in DOMAIN books THEN books[token] ELSE NewOutputRecord
             agg_state == IF token \in DOMAIN aggs THEN aggs[token]
                          ELSE NewPendingAggressorState
         IN Then(apply_deltas_to_book(reconstructed, shm, agg_state), LAMBDA r :
            [reconstructed_books |->
                 (token :> r.rec) @@ books,
             aggressor_states |->
                 (token :> r.agg) @@ aggs,
             delivered |-> <<r.rec>> \o r.extras])

\* variant: the extra records always go to the observer first
process_deltas_extras_first(shm, books, aggs) ==
    IF shm = <<>>
    THEN [reconstructed_books |-> books, aggressor_states |-> aggs, delivered |-> <<>>]
    ELSE LET token == shm[1].token
             reconstructed == IF token \in DOMAIN books THEN books[token] ELSE NewOutputRecord
             agg_state == IF token \in DOMAIN aggs THEN aggs[token]
                          ELSE NewPendingAggressorState
         IN Then(apply_deltas_to_book(reconstructed, shm, agg_state), LAMBDA r :
            [reconstructed_books |->
                 (token :> r.rec) @@ books,
             aggressor_states |->
                 (token :> r.agg) @@ aggs,
             delivered |-> Append(r.extras, r.rec)])

\* variant: one pending-aggressor record serves every token
process_deltas_one_agg(shm, books, aggs) ==
    IF shm = <<>>
    THEN [reconstructed_books |-> books, aggressor_states |-> aggs, delivered |-> <<>>]
    ELSE LET token == shm[1].token
             reconstructed == IF token \in DOMAIN books THEN books[token] ELSE NewOutputRecord
             agg_state == IF token \in DOMAIN aggs THEN aggs[token]
                          ELSE NewPendingAggressorState
         IN Then(apply_deltas_to_book(reconstructed, shm, agg_state), LAMBDA r :
            [reconstructed_books |->
                 (token :> r.rec) @@ books,
             aggressor_states |->
                 [t \in DOMAIN aggs \cup {token} |-> r.agg],
             delivered |-> IF r.extras # <<>>
                              /\ r.extras[1].event.tick_type \in {"T", "D", "E"}
                           THEN Append(r.extras, r.rec)
                           ELSE <<r.rec>> \o r.extras])

\* process_deltas: the mirror, the pending-aggressor record and what the observer gets
process_deltas(shm, books, aggs) ==
    IF shm = <<>>
    THEN [reconstructed_books |-> books, aggressor_states |-> aggs, delivered |-> <<>>]
    ELSE LET token == shm[1].token
             reconstructed == IF token \in DOMAIN books THEN books[token] ELSE NewOutputRecord
             agg_state == IF token \in DOMAIN aggs THEN aggs[token]
                          ELSE NewPendingAggressorState
         IN Then(apply_deltas_to_book(reconstructed, shm, agg_state), LAMBDA r :
            [reconstructed_books |->
                 (token :> r.rec) @@ books,
             aggressor_states |->
                 (token :> r.agg) @@ aggs,
             delivered |-> IF r.extras # <<>>
                              /\ r.extras[1].event.tick_type \in {"T", "D", "E"}
                           THEN Append(r.extras, r.rec)
                           ELSE <<r.rec>> \o r.extras])

\* ------------------------------------------------------ specification
Token == 7
Prices == 1..MaxPrice
Qtys == 0..MaxQty

NoInput ==
    [record_idx |-> 0, token |-> 0, order_id |-> 0, order_id2 |-> 0, price |-> 0,
     qty |-> 0, tick_type |-> "", is_ask |-> FALSE]

InputRecord(idx, tick_type, order_id, order_id2, price, qty, is_ask) ==
    [record_idx |-> idx, token |-> Token, order_id |-> order_id,
     order_id2 |-> order_id2, price |-> price, qty |-> qty, tick_type |-> tick_type,
     is_ask |-> is_ask]

\* the Runner after construction, before main's loop
NewRunner ==
    [mbos |-> << >>, shm_deltas |-> << >>, reconstructed_books |-> << >>,
     aggressor_states |-> << >>, delivered |-> << >>, fatal |-> FALSE]

\* one iteration of main's loop: process_record, then process_deltas
main_iteration(r, rec) ==
    Then(process_record(r.mbos, r.shm_deltas, rec), LAMBDA pr :
    IF pr.fatal
    THEN [r EXCEPT !.mbos = pr.mbos, !.delivered = << >>, !.fatal = TRUE]
    ELSE Then(process_deltas(pr.shm_deltas, r.reconstructed_books, r.aggressor_states),
              LAMBDA pd :
         [mbos |-> pr.mbos,
          shm_deltas |-> pr.shm_deltas,
          reconstructed_books |-> pd.reconstructed_books,
          aggressor_states |-> pd.aggressor_states,
          delivered |-> pd.delivered,
          fatal |-> FALSE]))

Alive == \A t \in DOMAIN mbos : mbos[t].fatal = "none"

\* ids are opaque: of the ids no order ever had, the least stands for all
UsedIds ==
    LET m == mbo_of(mbos, Token)
        a == IF Token \in DOMAIN aggressor_states THEN aggressor_states[Token]
             ELSE NewPendingAggressorState
    IN (DOMAIN m.order_map
        \cup {m.last_order_id, m.pending_cross.aggressor_id, a.aggressor_id}) \ {0}

FreshIds ==
    LET free == (1..MaxId) \ UsedIds
    IN IF free = {} THEN {} ELSE {Min(free)}

KnownIds == DOMAIN mbo_of(mbos, Token).order_map

\* what the handlers keep of a book: sides, id map and crossing state
BookState(m) == <<m.bids, m.asks, m.order_map, m.pending_cross>>

NoPreCross ==
    [stage |-> "none", is_ask |-> FALSE, levels |-> << >>,
     origin |-> "", rest_price |-> 0, orig_qty |-> 0, traded |-> 0]

\* history of the crossing in progress, kept while the crossing is active:
\*   origin, rest_price, orig_qty  the event that started it, the price the
\*                                 aggressor rested at before it, its qty
\*   traded                        the fill qty of the trades seen since
\*   is_ask, levels                the passive side as it was before that event
\*   stage                         "crossed" until a later event changes the
\*                                 book; "uncrossed" right after the aggressor's
\*                                 cancel if that is the next such event
next_pre_cross(before, after, rec) ==
    IF after.fatal # "none" THEN NoPreCross
    ELSE IF ~is_active(before.pending_cross) /\ is_active(after.pending_cross)
    THEN [stage |-> "crossed",
          is_ask |-> ~after.pending_cross.aggressor_is_ask,
          levels |-> Side(before, ~after.pending_cross.aggressor_is_ask).levels,
          origin |-> rec.tick_type,
          rest_price |-> IF rec.order_id \in DOMAIN before.order_map
                         THEN before.order_map[rec.order_id].price ELSE 0,
          orig_qty |-> rec.qty,
          traded |-> 0]
    ELSE IF BookState(after) = BookState(before) /\ rec.tick_type # "T"
    THEN pre_cross
    ELSE IF pre_cross.stage = "crossed" /\ rec.tick_type = "X"
            /\ rec.order_id = before.pending_cross.aggressor_id
    THEN [NoPreCross EXCEPT !.stage = "uncrossed", !.is_ask = pre_cross.is_ask,
                            !.levels = pre_cross.levels]
    ELSE IF is_active(after.pending_cross)
    THEN [pre_cross EXCEPT !.stage = "none", !.levels = << >>, !.is_ask = FALSE,
                           !.traded = IF rec.tick_type = "T" THEN @ + rec.qty ELSE @]
    ELSE NoPreCross

Init ==
    /\ g_crossing_enabled \in BOOLEAN
    /\ pre_cross = NoPreCross
    /\ unapplied = << >>
    /\ mbos = NewRunner.mbos
    /\ shm_deltas = NewRunner.shm_deltas
    /\ reconstructed_books = NewRunner.reconstructed_books
    /\ aggressor_states = NewRunner.aggressor_states
    /\ delivered = NewRunner.delivered
    /\ input = NoInput
    /\ input_idx = 0
    /\ budget = MaxEvents

\* the Runner's members after the iteration that gave r
Store(r, rec) ==
    /\ mbos' = r.mbos
    /\ shm_deltas' = r.shm_deltas
    /\ reconstructed_books' = r.reconstructed_books
    /\ aggressor_states' = r.aggressor_states
    /\ delivered' = r.delivered
    /\ pre_cross' = next_pre_cross(mbo_of(mbos, rec.token), r.mbos[rec.token], rec)

MainLoop(rec, cost) ==
    /\ Alive
    /\ budget >= cost
    /\ Store(main_iteration([mbos |-> mbos, shm_deltas |-> shm_deltas,
                             reconstructed_books |-> reconstructed_books,
                             aggressor_states |-> aggressor_states,
                             delivered |-> delivered, fatal |-> FALSE], rec), rec)
    /\ input' = rec
    /\ input_idx' = input_idx + 1
    /\ budget' = budget - cost
    /\ UNCHANGED <<g_crossing_enabled, unapplied>>

\* the book is first built up: the first MaxResting records may be new orders
\* with ids never seen before and a positive qty, outside the budget
RestingOrderEvent ==
    /\ budget = MaxEvents
    /\ input_idx < MaxResting
    /\ \E id \in FreshIds, is_ask \in BOOLEAN, p \in Prices, q \in 1..MaxQty :
          MainLoop(InputRecord(input_idx, "N", id, 0, p, q, is_ask), 0)

\* new_order with id 0 returns at once: one record stands for all of them
NewOrderEvent ==
    \/ MainLoop(InputRecord(input_idx, "N", 0, 0, 1, 1, FALSE), 1)
    \/ \E id \in UsedIds \cup FreshIds, is_ask \in BOOLEAN, p \in Prices, q \in Qtys :
          MainLoop(InputRecord(input_idx, "N", id, 0, p, q, is_ask), 1)

\* modify_order of an id that is not in the map returns at once
ModifyEvent ==
    \/ MainLoop(InputRecord(input_idx, "M", 0, 0, 1, 1, FALSE), 1)
    \/ \E id \in KnownIds, p \in Prices, q \in Qtys :
          MainLoop(InputRecord(input_idx, "M", id, 0, p, q, FALSE), 1)

\* a cancel may name an order that is gone: 0 stands for the ids never seen
CancelEvent ==
    \E id \in {0} \cup UsedIds :
        MainLoop(InputRecord(input_idx, "X", id, 0, 0, 0, FALSE), 1)

TradeEvent ==
    \E bid_id \in {0} \cup UsedIds \cup FreshIds, ask_id \in {0} \cup UsedIds \cup FreshIds,
       q \in Qtys :
        MainLoop(InputRecord(input_idx, "T", bid_id, ask_id, MaxPrice, q, FALSE), 1)

\* a record whose tick_type is none of N, M, X, T
OtherEvent == MainLoop(InputRecord(input_idx, "S", 0, 0, 0, 0, FALSE), 1)

Next == RestingOrderEvent \/ NewOrderEvent \/ ModifyEvent \/ CancelEvent \/ TradeEvent \/ OtherEvent

Spec == Init /\ [][Next]_vars

Book == mbo_of(mbos, Token)

\* -------------------------------------------------- the deep book
\* A book deeper than the 20 levels the observer sees: asks at prices
\* 1..MaxLadder, one order of qty 1 a level, order i at price i; then a bid
\* that sweeps the first p of them, and a cancel.
InitDeep ==
    /\ g_crossing_enabled \in BOOLEAN
    /\ pre_cross = NoPreCross
    /\ unapplied = << >>
    /\ mbos = NewRunner.mbos
    /\ shm_deltas = NewRunner.shm_deltas
    /\ reconstructed_books = NewRunner.reconstructed_books
    /\ aggressor_states = NewRunner.aggressor_states
    /\ delivered = NewRunner.delivered
    /\ input = NoInput
    /\ input_idx = 0
    /\ budget = MaxEvents

LadderOrderEvent ==
    /\ budget = MaxEvents
    /\ input_idx < MaxLadder
    /\ MainLoop(InputRecord(input_idx, "N", input_idx + 1, 0, input_idx + 1, 1, TRUE), 0)

SweepEvent ==
    /\ budget = MaxEvents
    /\ \E p \in 1..MaxLadder :
          MainLoop(InputRecord(input_idx, "N", input_idx + 1, 0, p, p, FALSE), 1)

\* cancel of the best ask's order or of the order that came last
DeepCancelEvent ==
    \E id \in {1, Book.last_order_id} \ {0} :
        MainLoop(InputRecord(input_idx, "X", id, 0, 0, 0, FALSE), 1)

NextDeep == LadderOrderEvent \/ SweepEvent \/ DeepCancelEvent

SpecDeep == InitDeep /\ [][NextDeep]_vars

\* -------------------------------------------- the crossing scenario
\* Crossing is enabled.  The first MaxBuild records that find no crossing
\* active are new orders, or one modify, that build the book and start
\* crossings; while a crossing is active the exchange confirms it by trades,
\* in price priority, or cancels the aggressor.
InitCrossing ==
    /\ g_crossing_enabled = TRUE
    /\ pre_cross = NoPreCross
    /\ unapplied = << >>
    /\ mbos = NewRunner.mbos
    /\ shm_deltas = NewRunner.shm_deltas
    /\ reconstructed_books = NewRunner.reconstructed_books
    /\ aggressor_states = NewRunner.aggressor_states
    /\ delivered = NewRunner.delivered
    /\ input = NoInput
    /\ input_idx = 0
    /\ budget = MaxEvents

\* ids are opaque: the least id no order ever had stands for all of them
BuildIds == {Min((1..(MaxBuild + 2)) \ UsedIds)}

BuildEvent ==
    /\ ~is_active(Book.pending_cross)
    /\ input_idx < MaxBuild
    /\ \E id \in BuildIds, is_ask \in BOOLEAN, p \in Prices, q \in 1..MaxQty :
          MainLoop(InputRecord(input_idx, "N", id, 0, p, q, is_ask), 0)

\* one modify, in the place of a new order
BuildModifyEvent ==
    /\ ~is_active(Book.pending_cross)
    /\ input_idx < MaxBuild
    /\ \E id \in KnownIds, p \in Prices, q \in 1..MaxQty :
          MainLoop(InputRecord(input_idx, "M", id, 0, p, q, FALSE), MaxEvents)

\* the passive orders the exchange matches next: those of the id map at the
\* best price of the passive side
NextPassive ==
    LET passive == ~Book.pending_cross.aggressor_is_ask
        ids == {id \in KnownIds : Book.order_map[id].is_ask = passive}
    IN {id \in ids :
          \A other \in ids :
             IF passive THEN Book.order_map[id].price <= Book.order_map[other].price
             ELSE Book.order_map[id].price >= Book.order_map[other].price}

\* a trade of the aggressor with one of them, of no more than either has left
ConfirmEvent ==
    /\ is_active(Book.pending_cross)
    /\ Book.pending_cross.aggressor_id \in KnownIds
    /\ \E id \in NextPassive :
          \E q \in 1..MinOf(Book.order_map[id].qty,
                            Book.order_map[Book.pending_cross.aggressor_id].qty) :
             MainLoop(IF Book.pending_cross.aggressor_is_ask
                      THEN InputRecord(input_idx, "T", id, Book.pending_cross.aggressor_id,
                                       Book.order_map[id].price, q, FALSE)
                      ELSE InputRecord(input_idx, "T", Book.pending_cross.aggressor_id, id,
                                       Book.order_map[id].price, q, FALSE), 0)

AggressorCancelEvent ==
    /\ is_active(Book.pending_cross)
    /\ MainLoop(InputRecord(input_idx, "X", Book.pending_cross.aggressor_id, 0, 0, 0, FALSE), 0)

NextCrossing == BuildEvent \/ BuildModifyEvent \/ ConfirmEvent \/ AggressorCancelEvent

SpecCrossing == InitCrossing /\ [][NextCrossing]_vars

\* ------------------------------------------------------- two tokens
\* records of the stream that interleaves two tokens
MaxTokenEvents == 4

OtherToken == Token + 1

Tokens == {Token, OtherToken}

\* the ids of the orders of either token
TokenIds == 1..2

ForToken(rec, token) == [rec EXCEPT !.token = token]

TokenOrderEvent ==
    /\ input_idx < MaxTokenEvents
    /\ \E token \in Tokens, id \in TokenIds, is_ask \in BOOLEAN, p \in Prices :
          MainLoop(ForToken(InputRecord(input_idx, "N", id, 0, p, 1, is_ask), token), 0)

TokenModifyEvent ==
    /\ input_idx < MaxTokenEvents
    /\ \E token \in Tokens, id \in TokenIds, p \in Prices :
          MainLoop(ForToken(InputRecord(input_idx, "M", id, 0, p, 1, FALSE), token), 0)

TokenCancelEvent ==
    /\ input_idx < MaxTokenEvents
    /\ \E token \in Tokens, id \in TokenIds :
          MainLoop(ForToken(InputRecord(input_idx, "X", id, 0, 0, 0, FALSE), token), 0)

TokenTradeEvent ==
    /\ input_idx < MaxTokenEvents
    /\ \E token \in Tokens, bid_id \in TokenIds :
          MainLoop(ForToken(InputRecord(input_idx, "T", bid_id, CHOOSE a \in TokenIds : a # bid_id,
                                        MaxPrice, 1, FALSE), token), 0)

NextTokens == TokenOrderEvent \/ TokenModifyEvent \/ TokenCancelEvent \/ TokenTradeEvent

SpecTokens == Init /\ [][NextTokens]_vars

\* ------------------------------------------------------ the transport
\* process_record and process_deltas called in any order: main calls them in
\* turn, a publisher and a subscriber of their own would not
MaxTransportRecords == 3

MaxDeltasCalls == 3

InitTransport ==
    /\ g_crossing_enabled \in BOOLEAN
    /\ pre_cross = NoPreCross
    /\ unapplied = << >>
    /\ mbos = NewRunner.mbos
    /\ shm_deltas = NewRunner.shm_deltas
    /\ reconstructed_books = NewRunner.reconstructed_books
    /\ aggressor_states = NewRunner.aggressor_states
    /\ delivered = NewRunner.delivered
    /\ input = NoInput
    /\ input_idx = 0
    /\ budget = MaxDeltasCalls

\* a call of process_record alone
RecordCall(rec) ==
    LET pr == process_record(mbos, shm_deltas, rec)
    IN /\ Alive
       /\ input_idx < MaxTransportRecords
       /\ mbos' = pr.mbos
       /\ shm_deltas' = pr.shm_deltas
       /\ unapplied' = IF pr.fatal \/ pr.shm_deltas = << >> THEN unapplied
                       ELSE Append(unapplied, pr.shm_deltas)
       /\ pre_cross' = next_pre_cross(mbo_of(mbos, rec.token), pr.mbos[rec.token], rec)
       /\ input' = rec
       /\ input_idx' = input_idx + 1
       /\ UNCHANGED <<reconstructed_books, aggressor_states, delivered, budget,
                      g_crossing_enabled>>

RecordOrder ==
    \E id \in FreshIds, is_ask \in BOOLEAN, p \in Prices, q \in 1..MaxQty :
        RecordCall(InputRecord(input_idx, "N", id, 0, p, q, is_ask))

RecordCancel ==
    \E id \in {0} \cup UsedIds :
        RecordCall(InputRecord(input_idx, "X", id, 0, 0, 0, FALSE))

\* a call of process_deltas alone
DeltasCall ==
    LET pd == process_deltas(shm_deltas, reconstructed_books, aggressor_states)
    IN /\ Alive
       /\ budget > 0
       /\ reconstructed_books' = pd.reconstructed_books
       /\ aggressor_states' = pd.aggressor_states
       /\ delivered' = pd.delivered
       /\ unapplied' = IF unapplied = << >> THEN << >> ELSE Tail(unapplied)
       /\ budget' = budget - 1
       /\ UNCHANGED <<mbos, shm_deltas, input, input_idx, pre_cross, g_crossing_enabled>>

NextTransport == RecordOrder \/ RecordCancel \/ DeltasCall

SpecTransport == InitTransport /\ [][NextTransport]_vars

\* ------------------------------------------------------------ properties
Mirror ==
    IF Token \in DOMAIN reconstructed_books THEN reconstructed_books[Token]
    ELSE NewOutputRecord

AggState ==
    IF Token \in DOMAIN aggressor_states THEN aggressor_states[Token]
    ELSE NewPendingAggressorState

\* the 20 best levels of one side as the observer should see them
TopOfBook(pl) ==
    [j \in 1..TopLevels |->
        IF j <= Len(pl.levels)
        THEN LET lv == pl.levels[Len(pl.levels) + 1 - j]
             IN [price |-> lv.key * side_multiplier(pl.is_ask), qty |-> lv.qty,
                 num_orders |-> lv.count]
        ELSE ZeroLevel]

\* C1: after every event the receiver's mirror holds, on each side, exactly the
\* 20 best levels of the book (price, qty, order count) and zeros beyond them.
C1_MirrorEqualsBook ==
    Alive => /\ Mirror.bids = TopOfBook(Book.bids)
             /\ Mirror.asks = TopOfBook(Book.asks)

\* all deltas of a list of chunks, in the order the receiver reads them
RECURSIVE Deltas(_)
Deltas(chunks) ==
    IF chunks = << >> THEN << >> ELSE chunks[1].payload \o Deltas(Tail(chunks))

HasDelta(chunks, type) == \E i \in DOMAIN Deltas(chunks) : Deltas(chunks)[i].type = type

PassiveSide(m) == Side(m, ~m.pending_cross.aggressor_is_ask)

\* C2: when the aggressor's cancel is the next event to change the book after
\* the crossing event, the passive side's levels (price, qty, order count) are
\* again those of before the crossing event.
C2_UncrossRestores ==
    (Alive /\ pre_cross.stage = "uncrossed")
        => Side(Book, pre_cross.is_ask).levels = pre_cross.levels

C2_Witness ==
    /\ Alive
    /\ pre_cross.stage = "uncrossed"
    /\ input.tick_type = "X"
    /\ Len(pre_cross.levels) = 2

\* C3: after a cancel or a trade returns, a crossing is never left active with
\* nothing pending on the passive side.
C3_DrainedCrossingInactive ==
    (Alive /\ input.tick_type \in {"X", "T"})
        => ~(is_active(Book.pending_cross) /\ pending_cross_fill_qty(PassiveSide(Book)) = 0)

C3_Witness ==
    /\ Alive
    /\ input.tick_type = "T"
    /\ HasDelta(shm_deltas, CrossingComplete)
    /\ ~is_active(Book.pending_cross)
    /\ pending_cross_fill_qty(PassiveSide(Book)) = 0

\* C4: a new_order with a nonzero id, or a modify_order of a known id, arriving
\* while a crossing is active aborts with the book untouched; and while the
\* crossing stays active its aggressor, side, prices and origin are never rewritten.
C4_NoOverlap ==
    [][(Alive /\ is_active(Book.pending_cross)) =>
          /\ ((\/ input'.tick_type = "N" /\ input'.order_id # 0
               \/ input'.tick_type = "M" /\ input'.order_id \in DOMAIN Book.order_map)
                 => /\ Book'.fatal # "none"
                    /\ BookState(Book') = BookState(Book)
                    /\ Book'.last_order_id = Book.last_order_id)
          /\ (is_active(Book'.pending_cross)
                 => [Book'.pending_cross EXCEPT !.aggressor_on_level = FALSE]
                    = [Book.pending_cross EXCEPT !.aggressor_on_level = FALSE])]_vars

C4_Witness ==
    /\ input.tick_type = "N"
    /\ Book.fatal = "Pending cross not resolved before new_order"
    /\ is_active(Book.pending_cross)

Handled == input.tick_type \in {"N", "M", "X", "T"}

\* C5: after every handler returns, every level present on either side has
\* an aggregate qty above zero.
C5_LevelsPositive ==
    (Alive /\ Handled)
        => \A is_ask \in BOOLEAN :
              \A i \in DOMAIN Side(Book, is_ask).levels :
                  Side(Book, is_ask).levels[i].qty > 0

\* C6: after every event returns, every order in the id map has qty > 0 and a
\* level exists on its side at its price.
C6_OrdersBackedByLevels ==
    (Alive /\ Handled)
        => \A id \in DOMAIN Book.order_map :
              LET info == Book.order_map[id]
                  pl == Side(Book, info.is_ask)
              IN /\ info.qty > 0
                 /\ \E i \in DOMAIN pl.levels :
                       pl.levels[i].key = info.price * side_multiplier(info.is_ask)

\* the least index on each side among the Updates and the shifting Inserts of
\* each run of deltas that starts at a TickInfo carrying a snapshot of its own
RECURSIVE SegmentMins(_, _, _, _)
SegmentMins(deltas, cur, seen, out) ==
    IF deltas = << >> THEN Append(out, cur)
    ELSE LET d == deltas[1]
             rest == Tail(deltas)
             lower(packed) ==
                 IF unpack_side(packed)
                 THEN <<cur[1], IF unpack_index(packed) < cur[2]
                                THEN unpack_index(packed) ELSE cur[2]>>
                 ELSE <<IF unpack_index(packed) < cur[1]
                        THEN unpack_index(packed) ELSE cur[1], cur[2]>>
         IN CASE d.type = TickInfo /\ d.tick_type # "S" ->
                    IF seen THEN SegmentMins(rest, <<TopLevels, TopLevels>>, TRUE,
                                             Append(out, cur))
                    ELSE SegmentMins(rest, cur, TRUE, out)
              [] d.type = Update -> SegmentMins(rest, lower(d.side_index), seen, out)
              [] d.type = Insert /\ unpack_shift(d.side_index_shift) ->
                    SegmentMins(rest, lower(d.side_index_shift), seen, out)
              [] OTHER -> SegmentMins(rest, cur, seen, out)

Affected(rec) == <<rec.bid_affected_lvl, rec.ask_affected_lvl>>

\* snapshot k of the event against the run of deltas it was built from; a
\* snapshot with no TickInfo of its own goes with the last run
FromDeltas(k) ==
    LET mins == SegmentMins(Deltas(shm_deltas), <<TopLevels, TopLevels>>, FALSE, << >>)
    IN Affected(delivered[k]) = mins[IF k <= Len(mins) THEN k ELSE Len(mins)]

IsCExpansion == delivered # << >> /\ delivered[1].event.tick_type = "C"

\* C7 as stated: on every snapshot delivered, each side's affected level is the
\* least index among that side's Updates and shifting Inserts, 20 if none.
C7_AffectedFromDeltas ==
    Alive => \A k \in DOMAIN delivered : FromDeltas(k)

\* C7 amended: that holds for every snapshot outside a C expansion; the
\* snapshots of a C expansion carry fixed values: 0/0 on C, 20/20 on S, and on
\* the third 0 on the aggressor's side and 20 on the other.
C7_AffectedFromDeltasOrFixed ==
    Alive =>
        IF IsCExpansion
        THEN /\ Len(delivered) \in {2, 3}
             /\ Affected(delivered[1]) = <<0, 0>>
             /\ Affected(delivered[2]) = <<TopLevels, TopLevels>>
             /\ Len(delivered) = 3 =>
                   Affected(delivered[3]) = IF delivered[3].is_ask THEN <<TopLevels, 0>>
                                            ELSE <<0, TopLevels>>
        ELSE \A k \in DOMAIN delivered : FromDeltas(k)

C7_Witness ==
    /\ Alive
    /\ ~IsCExpansion
    /\ Len(delivered) = 1
    /\ delivered[1].bid_affected_lvl = 0
    /\ \E i \in DOMAIN Deltas(shm_deltas) :
          LET d == Deltas(shm_deltas)[i]
          IN d.type = Insert /\ ~unpack_side(d.side_index_shift)
             /\ unpack_index(d.side_index_shift) = 1 /\ d.qty > 0

\* C9: when a trade drains a crossing that a modify started and the aggressor
\* has nothing left, the event delivers the trade snapshot and then an X
\* snapshot of the aggressor at the price it rested at before the modify.
C9_CancelAtRestingPrice ==
    [][(/\ Alive
        /\ is_active(Book.pending_cross)
        /\ pre_cross.origin = "M"
        /\ input'.tick_type = "T"
        /\ Alive'
        /\ ~is_active(Book'.pending_cross)
        /\ ~(/\ Book.pending_cross.aggressor_id \in DOMAIN Book'.order_map
             /\ Book'.order_map[Book.pending_cross.aggressor_id].qty > 0))
       => /\ Len(delivered') = 2
          /\ delivered'[1].event.tick_type \in {"T", "D", "E"}
          /\ delivered'[1].event.qty = input'.qty
          /\ delivered'[2].event.tick_type = "X"
          /\ delivered'[2].event.order_id = Book.pending_cross.aggressor_id
          /\ delivered'[2].event.price = pre_cross.rest_price]_vars

C9_Witness ==
    /\ Alive
    /\ input.tick_type = "T"
    /\ Len(delivered) = 2
    /\ delivered[2].event.tick_type = "X"
    /\ delivered[2].event.order_id = AggState.aggressor_id
    /\ delivered[2].event.price # AggState.aggressor_price

\* the cancel of input' is the cancel of a passive order at a price the active
\* crossing reaches, while fills of that crossing are pending
PassiveCancelNext ==
    LET pc == Book.pending_cross
        id == input'.order_id
    IN /\ Alive
       /\ is_active(pc)
       /\ input'.tick_type = "X"
       /\ id \in DOMAIN Book.order_map
       /\ id # pc.aggressor_id
       /\ Book.order_map[id].is_ask # pc.aggressor_is_ask
       /\ IF pc.aggressor_is_ask THEN pc.aggressor_price <= Book.order_map[id].price
                                 ELSE pc.aggressor_price >= Book.order_map[id].price
       /\ Book.order_map[id].qty > 0
       /\ pending_cross_fill_qty(PassiveSide(Book)) > 0
       /\ Alive'

\* the three snapshots of a passive cancel; third_type is the code of the third
ThreeSnapshots(third_type) ==
    LET pc == Book.pending_cross
        info == Book.order_map[input'.order_id]
        d == delivered'
    IN /\ Len(d) = 3
       /\ d[1].event.tick_type = "C"
       /\ d[1].is_ask = pc.aggressor_is_ask
       /\ d[1].event.is_ask = pc.aggressor_is_ask
       /\ Affected(d[1]) = <<0, 0>>
       /\ d[2].event.tick_type = "S"
       /\ d[2].is_ask = info.is_ask
       /\ d[2].event.is_ask = info.is_ask
       /\ Affected(d[2]) = <<TopLevels, TopLevels>>
       /\ d[2].event.price = info.price
       /\ d[2].event.qty = info.qty
       /\ d[3].event.tick_type = third_type
       /\ d[3].event.order_id = pc.aggressor_id
       /\ d[3].is_ask = pc.aggressor_is_ask
       /\ d[3].event.is_ask = pc.aggressor_is_ask
       /\ d[3].event.price = pc.aggressor_price
       /\ d[3].event.qty = pre_cross.orig_qty - pre_cross.traded

\* C10 as stated: the cancel of a passive order the crossing consumed from
\* delivers C (aggressor's side, 0/0), S (cancelled side, 20/20, the order's own
\* price and qty) and then N or M by origin for the aggressor.
C10_PassiveCancelSnapshots ==
    [][PassiveCancelNext
          => ThreeSnapshots(IF pre_cross.origin = "N" THEN "N" ELSE "M")]_vars

\* C10 amended: the third snapshot is N or M only when that cancel completes
\* the crossing; while the crossing goes on it is A or B by origin.
C10_PassiveCancelSnapshotsByCompletion ==
    [][PassiveCancelNext
          => ThreeSnapshots(IF is_active(Book'.pending_cross)
                            THEN (IF pre_cross.origin = "N" THEN "A" ELSE "B")
                            ELSE (IF pre_cross.origin = "N" THEN "N" ELSE "M"))]_vars

C10_Witness ==
    /\ Alive
    /\ input.tick_type = "X"
    /\ is_active(Book.pending_cross)
    /\ Len(delivered) = 3
    /\ delivered[1].event.tick_type = "C"
    /\ delivered[2].event.tick_type = "S"
    /\ delivered[3].event.tick_type = "A"
    /\ delivered[3].event.order_id = Book.pending_cross.aggressor_id

\* C8: no event needs more chunks than the emitter's 20.
C8_NoChunkOverflow == Book.fatal # "chunk overflow"

\* the sum of the quantities of a side's levels
RECURSIVE TotalQty(_)
TotalQty(levels) ==
    IF levels = << >> THEN 0 ELSE levels[1].qty + TotalQty(Tail(levels))

\* input' cancels the aggressor of the active crossing, whose record is in the id map
AggressorCancelNext ==
    /\ Alive
    /\ is_active(Book.pending_cross)
    /\ input'.tick_type = "X"
    /\ input'.order_id = Book.pending_cross.aggressor_id

\* what the aggressor's cancel emits, leaves behind and delivers
AggressorCancelOutcome ==
    LET pc == Book.pending_cross
        id == pc.aggressor_id
        info == Book.order_map[id]
        pending == pending_cross_fill_qty(PassiveSide(Book))
        residual == IF pc.aggressor_on_level /\ info.qty - pending > 0
                    THEN info.qty - pending ELSE 0
        ds == Deltas(shm_deltas')
        n == Len(ds)
    IN /\ Alive'
       /\ n >= 3
       /\ ds[1].type = TickInfo /\ ds[1].tick_type = "C" /\ ds[1].order_id = id
       /\ \A i \in 2..(n - 2) : ds[i].type \in {Update, Insert}
       /\ ds[n - 1].type = TickInfo /\ ds[n - 1].tick_type = "S"
       /\ ~tick_is_exch(ds[n - 1])
       /\ ds[n - 1].price = info.price /\ ds[n - 1].qty = info.qty
       /\ ds[n].type = CrossingComplete
       /\ TotalQty(Side(Book', ~pc.aggressor_is_ask).levels)
             = TotalQty(PassiveSide(Book).levels) + pending
       /\ TotalQty(Side(Book', pc.aggressor_is_ask).levels)
             = TotalQty(Side(Book, pc.aggressor_is_ask).levels) - residual
       /\ ~is_active(Book'.pending_cross)
       /\ id \notin DOMAIN Book'.order_map
       /\ Len(delivered') = 2
       /\ delivered'[1].event.tick_type = "C"
       /\ delivered'[2].event.tick_type = "S"
       /\ AggState'.aggressor_id = 0

\* C11 as stated: the cancel of the aggressor of an active crossing emits
\* TickInfo C, only level deltas that give the passive side its unconfirmed qty
\* back and take the aggressor's residual off its side, TickInfo S (not an
\* exchange tick) with the aggressor's recorded price and qty, and
\* CrossingComplete; then the crossing is inactive, the aggressor's record is
\* erased, the observer got exactly C then S, and the receiver's
\* pending-aggressor record is cleared.
C11_AggressorCancel ==
    [][AggressorCancelNext
          => /\ input'.order_id \in DOMAIN Book.order_map
             /\ AggressorCancelOutcome]_vars

\* C11 amended: that holds when the aggressor's record is still in the id map.
C11_AggressorCancelOfKnown ==
    [][(AggressorCancelNext /\ input'.order_id \in DOMAIN Book.order_map)
          => AggressorCancelOutcome]_vars

C11_Witness ==
    /\ Alive
    /\ input.tick_type = "X"
    /\ Len(delivered) = 2
    /\ delivered[1].event.tick_type = "C"
    /\ delivered[2].event.tick_type = "S"
    /\ delivered[1].event.order_id = input.order_id
    /\ HasDelta(shm_deltas, CrossingComplete)
    /\ HasDelta(shm_deltas, Insert)

\* the ids a trade record names on the crossing's passive and aggressor sides
PassiveIdOf(rec) == IF Book.pending_cross.aggressor_is_ask THEN rec.order_id ELSE rec.order_id2
AggressorIdOf(rec) == IF Book.pending_cross.aggressor_is_ask THEN rec.order_id2 ELSE rec.order_id

\* input' is a trade of an active crossing that the pending consumption covers
\* in full and that leaves the passive order it names with qty > 0
ReconciledPartialTradeNext ==
    LET pc == Book.pending_cross
        passive_id == PassiveIdOf(input')
    IN /\ Alive /\ Alive'
       /\ is_active(pc)
       /\ input'.tick_type = "T"
       /\ input'.qty > 0
       /\ pending_cross_fill_qty(PassiveSide(Book))
             - pending_cross_fill_qty(Side(Book', ~pc.aggressor_is_ask)) = input'.qty
       /\ passive_id \in DOMAIN Book.order_map
       /\ passive_id \in DOMAIN Book'.order_map
       /\ Book'.order_map[passive_id].qty > 0

ZeroUpdate(d, is_ask, idx) ==
    /\ d.type = Update
    /\ unpack_side(d.side_index) = is_ask
    /\ unpack_index(d.side_index) = idx
    /\ d.qty_delta = 0 /\ d.count_delta = 0

\* the trade's TickInfo and the two zero-delta Updates at index 0
TradeHead(ds, codes) ==
    /\ Len(ds) >= 3
    /\ ds[1].type = TickInfo /\ ds[1].tick_type \in codes
    /\ ds[1].price = input'.price /\ ds[1].qty = input'.qty
    /\ ds[1].order_id = input'.order_id /\ ds[1].order_id2 = input'.order_id2
    /\ \E side \in BOOLEAN : ZeroUpdate(ds[2], side, 0) /\ ZeroUpdate(ds[3], ~side, 0)

\* the crossing of a new order ends here with the aggressor consumed:
\* CrossingComplete closes the event and only the trade's snapshot is delivered
TradeTail(ds) ==
    LET pc == Book.pending_cross
    IN (/\ ~is_active(Book'.pending_cross)
        /\ pc.residual_tick_type = "N"
        /\ pc.aggressor_id \notin DOMAIN Book'.order_map)
       => /\ ds[Len(ds)].type = CrossingComplete
          /\ Len(delivered') = 1
          /\ delivered'[1].event.tick_type = ds[1].tick_type

\* C12 as stated: such a trade emits TickInfo T (price, fill qty, bid id, ask
\* id), two zero-delta Updates at index 0, one per side, one more zero-delta
\* Update at the passive order's level, and CrossingComplete with no
\* synthesized N when the pending qty reached zero with a new-order aggressor
\* fully consumed.
C12_ReconciledTradeDeltas ==
    [][ReconciledPartialTradeNext =>
         LET ds == Deltas(shm_deltas')
             info == Book.order_map[PassiveIdOf(input')]
         IN /\ TradeHead(ds, {"T"})
            /\ Len(ds) >= 4
            /\ ZeroUpdate(ds[4], info.is_ask,
                          get_level_index(Side(Book, info.is_ask), info.price))
            /\ TradeTail(ds)]_vars

\* C12 amended: the TickInfo has code T when the trade names the aggressor's
\* record and D or E otherwise; the two zero-delta Updates at index 0 follow;
\* no further delta touches the passive order's side; the end is as stated.
C12_ReconciledTradeDeltasNoThirdUpdate ==
    [][ReconciledPartialTradeNext =>
         LET ds == Deltas(shm_deltas')
             info == Book.order_map[PassiveIdOf(input')]
         IN /\ TradeHead(ds, IF AggressorIdOf(input') \in DOMAIN Book.order_map
                             THEN {"T"} ELSE {"D", "E"})
            /\ \A i \in 4..Len(ds) :
                  /\ ds[i].type = Update => unpack_side(ds[i].side_index) # info.is_ask
                  /\ ds[i].type = Insert => unpack_side(ds[i].side_index_shift) # info.is_ask
            /\ TradeTail(ds)]_vars

C12_Witness ==
    /\ Alive
    /\ input.tick_type = "T"
    /\ input.order_id \in DOMAIN Book.order_map \/ input.order_id2 \in DOMAIN Book.order_map
    /\ ~is_active(Book.pending_cross)
    /\ Len(Deltas(shm_deltas)) = 4
    /\ Deltas(shm_deltas)[1].tick_type = "T"
    /\ ZeroUpdate(Deltas(shm_deltas)[2], TRUE, 0) \/ ZeroUpdate(Deltas(shm_deltas)[2], FALSE, 0)
    /\ Deltas(shm_deltas)[4].type = CrossingComplete
    /\ Len(delivered) = 1

\* input' cancels the only order of the best level of its side
BestLevelCancelNext ==
    LET id == input'.order_id
    IN /\ Alive /\ Alive'
       /\ input'.tick_type = "X"
       /\ id \in DOMAIN Book.order_map
       /\ LET info == Book.order_map[id]
              lv == Side(Book, info.is_ask).levels
          IN /\ lv # << >>
             /\ lv[Len(lv)].key = info.price * side_multiplier(info.is_ask)
             /\ lv[Len(lv)].count = 1
             /\ lv[Len(lv)].qty = info.qty

IsRefill(d) == d.type = Insert /\ ~unpack_shift(d.side_index_shift)

\* C13: the cancel of the only order of a side's best level emits a refill
\* Insert (no shift, index 19, with the price, qty and count of the level that
\* becomes the 20th best) if and only if the side had 21 levels or more.
C13_RefillOnBestCancel ==
    [][BestLevelCancelNext =>
         LET info == Book.order_map[input'.order_id]
             lv == Side(Book, info.is_ask).levels
             ds == Deltas(shm_deltas')
         IN /\ (\E i \in DOMAIN ds : IsRefill(ds[i])) <=> Len(lv) >= TopLevels + 1
            /\ \A i \in DOMAIN ds :
                  IsRefill(ds[i]) =>
                     /\ unpack_side(ds[i].side_index_shift) = info.is_ask
                     /\ unpack_index(ds[i].side_index_shift) = LastLevel
                     /\ ds[i].price = lv[Len(lv) - TopLevels].key * side_multiplier(info.is_ask)
                     /\ ds[i].qty = lv[Len(lv) - TopLevels].qty
                     /\ ds[i].count = lv[Len(lv) - TopLevels].count]_vars

C13_Witness ==
    /\ Alive
    /\ input.tick_type = "X"
    /\ Len(Book.asks.levels) = TopLevels
    /\ \E i \in DOMAIN Deltas(shm_deltas) :
          /\ IsRefill(Deltas(shm_deltas)[i])
          /\ Deltas(shm_deltas)[i].price = TopLevels + 1
    /\ Mirror.asks[TopLevels].price = TopLevels + 1

\* the Update and Insert deltas of a list of chunks, in order
LevelDeltas(chunks) ==
    SelectSeq(Deltas(chunks), LAMBDA d : d.type \in {Update, Insert})

LevelIndex(d) ==
    unpack_index(IF d.type = Update THEN d.side_index ELSE d.side_index_shift)

LevelSide(d) ==
    unpack_side(IF d.type = Update THEN d.side_index ELSE d.side_index_shift)

\* the rank price p has, or would have, on a side: the number of better levels
RankOf(m, is_ask, p) ==
    LET lv == Side(m, is_ask).levels
    IN Cardinality({i \in DOMAIN lv :
                      IF is_ask THEN lv[i].key * side_multiplier(is_ask) < p
                      ELSE lv[i].key * side_multiplier(is_ask) > p})

\* the next event is a new order of a fresh id that goes on a level of its
\* side without crossing
RestingNewNext ==
    /\ Alive /\ Alive'
    /\ input'.tick_type = "N"
    /\ Side(Book', input'.is_ask).levels # Side(Book, input'.is_ask).levels
    /\ input'.order_id \notin DOMAIN Book.order_map
    /\ input'.order_id \in DOMAIN Book'.order_map
    /\ ~is_active(Book.pending_cross) /\ ~is_active(Book'.pending_cross)

\* the next event is the cancel of a known order while no crossing is
\* active, and it takes the order off a level
PlainCancelNext ==
    /\ Alive /\ Alive'
    /\ input'.tick_type = "X"
    /\ input'.order_id \in DOMAIN Book.order_map
    /\ ~is_active(Book.pending_cross)
    /\ LET is_ask == Book.order_map[input'.order_id].is_ask
       IN Side(Book', is_ask).levels # Side(Book, is_ask).levels

\* the next event is a new order that crosses
SweepNext ==
    /\ Alive /\ Alive'
    /\ input'.tick_type = "N"
    /\ ~is_active(Book.pending_cross) /\ is_active(Book'.pending_cross)

\* C14: no Update or Insert of a chunk has an index of 20 or more.  An edit
\* that changes a level of rank 20 or worse appends no Update or Insert; an
\* edit of a better level carries the level's rank at the time of the edit:
\* the rank of the level a new order, or what is left of it, rests on or a
\* cancel takes from, 0 for each level a crossing order consumes, 19 for a
\* refill.
C14_IndexWithinTop ==
    [][LET ld == LevelDeltas(shm_deltas')
           is_ask == input'.is_ask
       IN /\ \A i \in DOMAIN ld : LevelIndex(ld[i]) \in 0..LastLevel
          /\ RestingNewNext =>
                LET r == RankOf(Book, is_ask, input'.price)
                IN IF r >= TopLevels THEN ld = << >>
                   ELSE /\ Len(ld) = 1
                        /\ LevelIndex(ld[1]) = r
                        /\ LevelSide(ld[1]) = is_ask
          /\ PlainCancelNext =>
                LET info == Book.order_map[input'.order_id]
                    r == RankOf(Book, info.is_ask, info.price)
                IN IF r >= TopLevels THEN ld = << >>
                   ELSE /\ ld # << >>
                        /\ ld[1].type = Update
                        /\ LevelIndex(ld[1]) = r
                        /\ LevelSide(ld[1]) = info.is_ask
                        /\ \A i \in 2..Len(ld) : IsRefill(ld[i])
          /\ SweepNext =>
                \A i \in DOMAIN ld :
                   IF LevelSide(ld[i]) = is_ask
                   THEN LevelIndex(ld[i]) = RankOf(Book, is_ask, input'.price)
                   ELSE IF ld[i].type = Update THEN LevelIndex(ld[i]) = 0
                   ELSE IsRefill(ld[i]) /\ LevelIndex(ld[i]) = LastLevel]_vars

\* a new ask rests as the 21st level or worse: the levels have changed and
\* the observer is told of the event only
C14_Witness ==
    /\ Alive
    /\ input.tick_type = "N" /\ input.is_ask
    /\ input.price > TopLevels
    /\ Len(Book.asks.levels) = input.price
    /\ input.order_id \in DOMAIN Book.order_map
    /\ Len(Deltas(shm_deltas)) = 1
    /\ Deltas(shm_deltas)[1].type = TickInfo

\* flags bit 0 of a chunk
IsFinal(chunk) == chunk.flags % 2 = 1

\* C15: the chunks of an event start with a TickInfo and, once finalized,
\* the last chunk and no other has the final bit set.
C15_TickInfoFirstFinalLast ==
    shm_deltas # << >> =>
        /\ shm_deltas[1].payload # << >>
        /\ shm_deltas[1].payload[1].type = TickInfo
        /\ \A i \in DOMAIN shm_deltas : IsFinal(shm_deltas[i]) <=> i = Len(shm_deltas)

\* an event of three chunks or more, which holds level deltas and a second
\* TickInfo
C15_Witness ==
    /\ Alive
    /\ Len(shm_deltas) >= 3
    /\ IsFinal(shm_deltas[Len(shm_deltas)])
    /\ LevelDeltas(shm_deltas) # << >>
    /\ \E i \in 2..Len(Deltas(shm_deltas)) : Deltas(shm_deltas)[i].type = TickInfo

\* the ids a trade record names that are in the id map
NamedInBook(rec, m) == ({rec.order_id, rec.order_id2} \ {0}) \cap DOMAIN m.order_map

\* the next event is a trade of more than what is left of an order it names
OverfillNext ==
    /\ Alive
    /\ input'.tick_type = "T"
    /\ \E id \in NamedInBook(input', Book) : input'.qty > Book.order_map[id].qty

\* the bid id names no ask order and the ask id no bid order
SidesMatch(rec, m) ==
    /\ rec.order_id \in NamedInBook(rec, m) => ~m.order_map[rec.order_id].is_ask
    /\ rec.order_id2 \in NamedInBook(rec, m) => m.order_map[rec.order_id2].is_ask

Overfill == "Trade overfill detected: fill_qty exceeds order qty"

\* C16: a trade that fills a named order of the id map with more than the
\* order has left ends the process, by the overfill assertion unless an id
\* names an order of the wrong side; and while the process lives no order
\* of the id map has a negative qty.
C16_OverfillIsFatal ==
    [][/\ OverfillNext =>
            /\ ~Alive'
            /\ SidesMatch(input', Book) => Book'.fatal = Overfill
       /\ Alive' => \A id \in DOMAIN Book'.order_map : Book'.order_map[id].qty >= 0]_vars

\* the overfill assertion has fired on a trade
C16_Witness ==
    /\ input.tick_type = "T"
    /\ Book.fatal = Overfill
    /\ \E id \in NamedInBook(input, Book) : input.qty > Book.order_map[id].qty

\* the next event is the cancel of an id the id map does not hold
UnknownCancelNext ==
    /\ Alive
    /\ input'.tick_type = "X"
    /\ input'.order_id \notin DOMAIN Book.order_map

\* C17: the cancel of an id that is not in the id map emits one delta, a
\* TickInfo X of price 0 and qty 0, and changes neither side (levels, logs of
\* speculative fills, pending totals), nor the id map, nor the crossing
\* state; the observer gets one snapshot, with the levels it had and
\* affected levels 20 and 20.
C17_UnknownCancel ==
    [][UnknownCancelNext =>
         /\ Alive'
         /\ Len(Deltas(shm_deltas')) = 1
         /\ LET d == Deltas(shm_deltas')[1]
            IN /\ d.type = TickInfo /\ d.tick_type = "X"
               /\ d.price = 0 /\ d.qty = 0
               /\ d.order_id = input'.order_id
         /\ Book'.asks = Book.asks /\ Book'.bids = Book.bids
         /\ Book'.order_map = Book.order_map
         /\ Book'.pending_cross = Book.pending_cross
         /\ Len(delivered') = 1
         /\ delivered'[1].event.tick_type = "X"
         /\ delivered'[1].bids = Mirror.bids /\ delivered'[1].asks = Mirror.asks
         /\ delivered'[1].bid_affected_lvl = TopLevels
         /\ delivered'[1].ask_affected_lvl = TopLevels]_vars

\* an id that is not in the id map is cancelled while a crossing is active
\* and both sides hold levels the observer has seen
C17_Witness ==
    /\ Alive
    /\ input.tick_type = "X" /\ input.order_id # 0
    /\ input.order_id \notin DOMAIN Book.order_map
    /\ is_active(Book.pending_cross)
    /\ Side(Book, ~Book.pending_cross.aggressor_is_ask).cross_fills # << >>
    /\ Len(delivered) = 1
    /\ delivered[1].event.tick_type = "X" /\ delivered[1].event.price = 0
    /\ delivered[1].bid_affected_lvl = TopLevels
    /\ delivered[1].ask_affected_lvl = TopLevels

\* the next event is a trade neither id of which is in the id map
UnknownTradeNext ==
    /\ Alive
    /\ input'.tick_type = "T"
    /\ NamedInBook(input', Book) = {}

\* C18: a trade neither id of which is in the id map emits a TickInfo and
\* changes no state of the book: the levels, the logs of speculative fills
\* and the pending totals of both sides, the id map and the crossing state
\* are what they were, also when a crossing is active.
C18_UnknownTradeNoMutation ==
    [][UnknownTradeNext =>
         /\ Alive'
         /\ Deltas(shm_deltas') # << >>
         /\ Deltas(shm_deltas')[1].type = TickInfo
         /\ Book'.asks = Book.asks /\ Book'.bids = Book.bids
         /\ Book'.order_map = Book.order_map
         /\ Book'.pending_cross = Book.pending_cross]_vars

TradeCodes == {"T", "D", "E"}

DerivedCodes == {"N", "M", "X"}

\* the snapshots of an event whose first TickInfo is a trade's: the trade's
\* first, then the derived ones
TradeSnapshotsInOrder(ds, d) ==
    /\ d # << >>
    /\ d[1].event.tick_type = ds[1].tick_type
    /\ \A i \in 2..Len(d) : d[i].event.tick_type \in DerivedCodes
    /\ (\E i \in 2..Len(ds) : ds[i].type = TickInfo /\ ds[i].tick_type \in DerivedCodes)
          => Len(d) >= 2

\* the snapshots of a C expansion: C, S and then, if there is a third, the
\* aggressor's with one of the codes of third_codes
ExpansionInOrder(d, aggressor_id, third_codes) ==
    /\ Len(d) \in {2, 3}
    /\ d[1].event.tick_type = "C"
    /\ d[2].event.tick_type = "S"
    /\ Len(d) = 3 => /\ d[3].event.tick_type \in third_codes
                     /\ d[3].event.order_id = aggressor_id

\* C19 as stated: of an event that starts with a T, D or E TickInfo the
\* observer gets the trade's snapshot first and the derived N, M or X after
\* it; of a C expansion it gets C, then S, then the aggressor's N or M if
\* there is one.
C19_DeliveryOrder ==
    [][Alive' /\ shm_deltas' # << >> =>
         LET ds == Deltas(shm_deltas')
         IN /\ ds[1].tick_type \in TradeCodes => TradeSnapshotsInOrder(ds, delivered')
            /\ ds[1].tick_type = "C" =>
                  ExpansionInOrder(delivered', Book.pending_cross.aggressor_id,
                                   {"N", "M"})]_vars

\* C19 amended: the third snapshot of a C expansion has the code A or B
\* while the crossing goes on, N or M once it is complete.
C19_DeliveryOrderByCompletion ==
    [][Alive' /\ shm_deltas' # << >> =>
         LET ds == Deltas(shm_deltas')
         IN /\ ds[1].tick_type \in TradeCodes => TradeSnapshotsInOrder(ds, delivered')
            /\ ds[1].tick_type = "C" =>
                  ExpansionInOrder(delivered', Book.pending_cross.aggressor_id,
                                   IF is_active(Book'.pending_cross)
                                   THEN {"A", "B"} ELSE {"N", "M"})]_vars

\* a trade is followed in its chunks by a second TickInfo, an X, and the
\* observer has got the trade's snapshot and then the X
C19_Witness ==
    /\ Alive
    /\ input.tick_type = "T"
    /\ \E i \in 2..Len(Deltas(shm_deltas)) :
          /\ Deltas(shm_deltas)[i].type = TickInfo
          /\ Deltas(shm_deltas)[i].tick_type = "X"
    /\ Len(delivered) = 2
    /\ delivered[1].event.tick_type \in TradeCodes
    /\ delivered[2].event.tick_type = "X"

\* the next event is a new order (of an id other than 0) or the modify of a
\* known order, with crossing enabled
OrderEventNext ==
    /\ Alive
    /\ g_crossing_enabled
    /\ \/ input'.tick_type = "N" /\ input'.order_id # 0
       \/ input'.tick_type = "M" /\ input'.order_id \in DOMAIN Book.order_map

\* the side of the order of that event
OrderSideNext ==
    IF input'.tick_type = "N" THEN input'.is_ask
    ELSE Book.order_map[input'.order_id].is_ask

\* what cross() consumed in that event: the rise of the passive side's
\* pending consumed qty
ConsumedNext ==
    Side(Book', ~OrderSideNext).pending_cross_fill_qty
        - Side(Book, ~OrderSideNext).pending_cross_fill_qty

\* C20: with crossing enabled, a new order or a modify of a known order
\* emits A (resp. B), not an exchange tick, exactly when cross consumes a
\* positive qty, and then the crossing state is active with the order as
\* aggressor; it emits N (resp. M), an exchange tick, exactly when cross
\* consumes nothing; and for a qty above 0 the assertion that the peek and
\* cross agree does not fire.
C20_PeekAgreesWithCross ==
    [][OrderEventNext =>
         /\ input'.qty > 0 => Book'.fatal # "would_cross but no consumption"
         /\ Alive' =>
              LET t == Deltas(shm_deltas')[1]
                  crossing == IF input'.tick_type = "N" THEN "A" ELSE "B"
                  plain == input'.tick_type
              IN /\ t.type = TickInfo
                 /\ t.tick_type \in {crossing, plain}
                 /\ t.tick_type = crossing <=> ~tick_is_exch(t)
                 /\ t.tick_type = crossing <=> ConsumedNext > 0
                 /\ t.tick_type = plain <=> ConsumedNext = 0
                 /\ ConsumedNext > 0 =>
                       /\ is_active(Book'.pending_cross)
                       /\ Book'.pending_cross.aggressor_id = input'.order_id]_vars

\* a modify has crossed: B was emitted and the crossing is active
C20_Witness ==
    /\ Alive
    /\ g_crossing_enabled
    /\ input.tick_type = "M" /\ input.qty > 0
    /\ shm_deltas # << >>
    /\ Deltas(shm_deltas)[1].tick_type = "B"
    /\ is_active(Book.pending_cross)
    /\ Book.pending_cross.aggressor_id = input.order_id
    /\ PassiveSide(Book).pending_cross_fill_qty > 0

\* the next event is a trade
TradeNext == Alive /\ input'.tick_type = "T"

\* the aggressor side the rule gives for a trade of bid_id and ask_id on book m
AggressorIsAsk(m, bid_id, ask_id) ==
    LET bid_known == bid_id \in DOMAIN m.order_map
        ask_known == ask_id \in DOMAIN m.order_map
    IN IF bid_known /\ ~ask_known THEN TRUE
       ELSE IF ask_known /\ ~bid_known THEN FALSE
       ELSE ask_id = m.last_order_id

\* the code the rule gives for an aggressor id
AggressorCode(m, id) ==
    IF id = 0 THEN "D" ELSE IF id \notin DOMAIN m.order_map THEN "E" ELSE "T"

\* C21: the first delta of a trade the process survives is a TickInfo whose
\* side is the side not in the id map when exactly one id is in it, else the
\* ask side exactly when ask_id is last_order_id; its code is D for an
\* aggressor id 0, E for one that is not in the id map, T otherwise.
C21_TradeAggressor ==
    [][TradeNext /\ Alive' =>
         LET t == Deltas(shm_deltas')[1]
             is_ask == AggressorIsAsk(Book, input'.order_id, input'.order_id2)
             id == IF is_ask THEN input'.order_id2 ELSE input'.order_id
         IN /\ t.type = TickInfo
            /\ tick_side(t) = is_ask
            /\ t.tick_type = AggressorCode(Book, id)
            /\ t.order_id = input'.order_id /\ t.order_id2 = input'.order_id2]_vars

\* a trade names a known bid and an unknown ask other than 0: the ask is the
\* aggressor and the code is E
C21_Witness ==
    /\ Alive
    /\ input.tick_type = "T" /\ input.qty > 0
    /\ input.order_id2 # 0
    /\ shm_deltas # << >>
    /\ Deltas(shm_deltas)[1].tick_type = "E"
    /\ tick_side(Deltas(shm_deltas)[1])
    /\ Side(Book, FALSE).levels # << >>

\* level i of pl crosses an aggressor at price
Crosses(pl, i, price) ==
    IF pl.is_ask THEN pl.levels[i].key * side_multiplier(pl.is_ask) <= price
    ELSE pl.levels[i].key * side_multiplier(pl.is_ask) >= price

\* what an aggressor of (price, qty) takes of level i once every better level
\* (the levels stored after i) that crosses has been emptied
Taken(pl, i, price, qty) ==
    LET better == SumQtyRange(pl.levels, i + 1, Len(pl.levels))
    IN IF ~Crosses(pl, i, price) \/ qty <= better THEN 0
       ELSE MinOf(pl.levels[i].qty, qty - better)

\* the outcome the rule gives for cross(price, qty) on pl: the qty returned,
\* the levels left and the log entries added
CrossOutcome(pl, price, qty) ==
    LET n == Len(pl.levels)
        left == [i \in 1..n |->
                    [pl.levels[i] EXCEPT !.qty = @ - Taken(pl, i, price, qty)]]
        log == [j \in 1..n |->
                   [price |-> pl.levels[n + 1 - j].key * side_multiplier(pl.is_ask),
                    qty |-> Taken(pl, n + 1 - j, price, qty),
                    count |-> pl.levels[n + 1 - j].count]]
        avail == SumQtyRange([i \in 1..n |->
                                 [qty |-> IF Crosses(pl, i, price)
                                          THEN pl.levels[i].qty ELSE 0]], 1, n)
    IN [ret |-> MinOf(qty, avail),
        levels |-> SelectSeq(left, LAMBDA l : l.qty > 0),
        fills |-> SelectSeq(log, LAMBDA f : f.qty > 0)]

\* side after is side before after cross(price, qty) by the rule: the pending
\* consumed qty is raised by what the rule returns, the levels are those the
\* rule leaves, and the log has one more entry a level touched
CrossedByRule(before, after, price, qty) ==
    LET out == CrossOutcome(before, price, qty)
    IN /\ after.pending_cross_fill_qty = before.pending_cross_fill_qty + out.ret
       /\ after.levels = out.levels
       /\ after.cross_fills =
             (IF before.pending_cross_fill_qty = 0 THEN << >> ELSE before.cross_fills)
                 \o out.fills

\* the book at the call of cross() in the cancel of a passive order the
\* crossing consumed from: what is left of the order is off its level and
\* what was consumed from it is no longer pending
RecrossBook ==
    LET info == Book.order_map[input'.order_id]
        passive == ~Book.pending_cross.aggressor_is_ask
        consumed_from_order == MinOf(info.qty, pending_cross_fill_qty(Side(Book, passive)))
    IN unreserve_cross_fill(
           remove_liquidity(Book, info.is_ask, info.price,
                            info.qty - consumed_from_order, 1),
           passive, consumed_from_order)

\* C22: with crossing enabled, the cross of a new order or of a modify
\* returns the lesser of the aggressor's qty and the qty of the passive
\* levels that cross its price, takes that qty off those levels from the
\* best on (a level is touched only when all better ones are empty), leaves
\* the order counts of the levels that stay, adds one log entry {price, qty
\* taken, count} a level touched, and raises the pending consumed qty by
\* what it returns; so does the cross again, for the qty consumed from a
\* cancelled passive order, when it leaves the crossing active.
C22_CrossConsumesBestFirst ==
    [][/\ OrderEventNext /\ Alive' =>
            /\ CrossedByRule(Side(Book, ~OrderSideNext), Side(Book', ~OrderSideNext),
                             input'.price, input'.qty)
            /\ CrossOutcome(Side(Book, ~OrderSideNext), input'.price, input'.qty).ret > 0
                  <=> Deltas(shm_deltas')[1].tick_type \in {"A", "B"}
       /\ PassiveCancelNext /\ is_active(Book'.pending_cross) =>
            CrossedByRule(PassiveSide(RecrossBook), PassiveSide(Book'),
                          Book.pending_cross.aggressor_price,
                          PassiveSide(Book).pending_cross_fill_qty
                              - PassiveSide(RecrossBook).pending_cross_fill_qty)]_vars

\* a cross has emptied the best passive level and taken part of the next
C22_Witness ==
    /\ Alive
    /\ g_crossing_enabled
    /\ input.tick_type \in {"N", "M"}
    /\ is_active(Book.pending_cross)
    /\ Len(PassiveSide(Book).cross_fills) = 2
    /\ PassiveSide(Book).levels # << >>
    /\ PassiveSide(Book).levels[Len(PassiveSide(Book).levels)].key
          * side_multiplier(PassiveSide(Book).is_ask) = PassiveSide(Book).cross_fills[2].price
    /\ PassiveSide(Book).pending_cross_fill_qty = input.qty

\* the orders of one side in the id map of m
SideIds(m, is_ask) == {id \in DOMAIN m.order_map : m.order_map[id].is_ask = is_ask}

\* the qty the orders of ids have left, in all
RECURSIVE QtyOfOrders(_, _)
QtyOfOrders(m, ids) ==
    IF ids = {} THEN 0
    ELSE LET id == CHOOSE x \in ids : TRUE
         IN m.order_map[id].qty + QtyOfOrders(m, ids \ {id})

\* the levels that aggregate the orders of one side of the id map: a level a
\* price, its qty the sum of the orders' and its count their number, in the
\* order PriceLevels keeps (descending canonical price)
AggregatedLevels(m, is_ask) ==
    LET keys == {m.order_map[id].price * side_multiplier(is_ask) : id \in SideIds(m, is_ask)}
        at(k) == {id \in SideIds(m, is_ask) :
                     m.order_map[id].price * side_multiplier(is_ask) = k}
        nth(i) == CHOOSE k \in keys : Cardinality({k2 \in keys : k2 > k}) = i - 1
    IN [i \in 1..Cardinality(keys) |->
           [key |-> nth(i), qty |-> QtyOfOrders(m, at(nth(i))),
            count |-> Cardinality(at(nth(i)))]]

\* the next event cancels the aggressor of a crossing part of which trades
\* have confirmed
ConfirmedCancelNext ==
    /\ AggressorCancelNext
    /\ SumQty(PassiveSide(Book).cross_fills) > PassiveSide(Book).pending_cross_fill_qty

\* C23: the cancel of the aggressor, after trades have confirmed part of
\* what it consumed, gives the crossed side back the pending qty and no
\* more; a level that is still there keeps its count; afterwards each level
\* of that side is the aggregation (sum of qty, number) of the orders of the
\* id map at its price, and the pending qty, the pending count and the log
\* are empty.
C23_UncrossAfterTrades ==
    [][ConfirmedCancelNext =>
         LET before == PassiveSide(Book)
             after == Side(Book', before.is_ask)
         IN /\ Alive'
            /\ TotalQty(after.levels) = TotalQty(before.levels) + before.pending_cross_fill_qty
            /\ \A i \in DOMAIN before.levels :
                  \E j \in DOMAIN after.levels :
                     /\ after.levels[j].key = before.levels[i].key
                     /\ after.levels[j].count = before.levels[i].count
                     /\ after.levels[j].qty >= before.levels[i].qty
            /\ after.levels = AggregatedLevels(Book', before.is_ask)
            /\ after.pending_cross_fill_qty = 0
            /\ after.pending_cross_fill_count = 0
            /\ after.cross_fills = << >>]_vars

\* the aggressor has been cancelled after a trade took part of what it had
\* consumed, and uncross has put a level back while the passive side has
\* two levels
C23_Witness ==
    /\ Alive
    /\ input.tick_type = "X"
    /\ shm_deltas # << >>
    /\ Deltas(shm_deltas)[1].tick_type = "C"
    /\ Deltas(shm_deltas)[1].order_id = input.order_id
    /\ Deltas(shm_deltas)[1].qty > 0
    /\ AggState.aggressor_remaining < AggState.aggressor_original_qty
    /\ \E i \in DOMAIN Deltas(shm_deltas) :
          /\ Deltas(shm_deltas)[i].type = Insert
          /\ Deltas(shm_deltas)[i].count = 1
    /\ Len(Side(Book, ~tick_side(Deltas(shm_deltas)[1])).levels) = 2
    /\ Cardinality(SideIds(Book, ~tick_side(Deltas(shm_deltas)[1]))) = 3

\* the CrossingComplete markers in a list of chunks
Completions(chunks) ==
    Cardinality({i \in DOMAIN Deltas(chunks) : Deltas(chunks)[i].type = CrossingComplete})

\* the next event ends the crossing: the book's crossing state is active
\* before it and idle after it
EndsCrossingNext ==
    /\ Alive /\ Alive'
    /\ is_active(Book.pending_cross)
    /\ ~is_active(Book'.pending_cross)

\* the next event is a trade that leaves nothing of the aggressor of a
\* crossing that a modify began
ModifyConsumedNext ==
    /\ input'.tick_type = "T"
    /\ Book.pending_cross.residual_tick_type = "M"
    /\ ~(/\ Book.pending_cross.aggressor_id \in DOMAIN Book'.order_map
         /\ Book'.order_map[Book.pending_cross.aggressor_id].qty > 0)

TradeCompletesNext ==
    /\ Alive /\ Alive'
    /\ input'.tick_type = "T"
    /\ is_active(Book.pending_cross)
    /\ Completions(shm_deltas') = 1

\* the aggressor of the crossing has qty left after the next event
AggressorLeftNext ==
    /\ Book.pending_cross.aggressor_id \in DOMAIN Book'.order_map
    /\ Book'.order_map[Book.pending_cross.aggressor_id].qty > 0

UnfilledNext == pre_cross.orig_qty - pre_cross.traded - input'.qty

SamePriceModifyNext ==
    /\ Alive /\ Alive'
    /\ input'.tick_type = "M"
    /\ input'.order_id \in DOMAIN Book.order_map
    /\ input'.price = Book.order_map[input'.order_id].price
    /\ Deltas(shm_deltas')[1].tick_type = "M"

\* what a level delta does to the order count of its level
CountChange(d) == IF d.type = Update THEN d.count_delta ELSE d.count

\* at most one level delta, and none that changes an order count
SingleQtyDelta(ld) ==
    /\ Len(ld) <= 1
    /\ \A i \in DOMAIN ld : CountChange(ld[i]) = 0

\* C26 as stated: a modify that keeps the price and does not cross carries
\* at most one level delta, which changes no order count, with crossing
\* enabled as with crossing disabled.
C26_SamePriceModify ==
    [][SamePriceModifyNext => SingleQtyDelta(LevelDeltas(shm_deltas'))]_vars

\* C26 amended: so it is with crossing disabled.  With crossing enabled the
\* order is taken off its level (its old qty, count 1) and, if the new qty
\* is above 0, put back (the new qty, count 1): each level delta that is no
\* refill is the Update of the one or the Update or Insert of the other, at
\* most one of each; a level the removal leaves with qty above 0 keeps its
\* count, and a level it empties is erased and put back with count 1.
C26_SamePriceModifyPlain ==
    [][SamePriceModifyNext =>
         LET ld == LevelDeltas(shm_deltas')
             info == Book.order_map[input'.order_id]
             off(d) == d.type = Update /\ d.qty_delta = -info.qty /\ d.count_delta = -1
             on(d) == IF d.type = Update
                      THEN d.qty_delta = input'.qty /\ d.count_delta = 1
                      ELSE d.qty = input'.qty /\ d.count = 1 /\ d.price = input'.price
             moves == SelectSeq(ld, LAMBDA d : ~IsRefill(d))
             before == Side(Book, info.is_ask).levels
             after == Side(Book', info.is_ask).levels
         IN /\ \A i \in DOMAIN ld : LevelSide(ld[i]) = info.is_ask
            /\ IF ~g_crossing_enabled THEN SingleQtyDelta(ld)
               ELSE /\ Len(moves) <= 2
                    /\ \A i \in DOMAIN moves : off(moves[i]) \/ on(moves[i])
                    /\ Len(moves) = 2 => off(moves[1]) /\ on(moves[2])
                    /\ \A i \in DOMAIN before, j \in DOMAIN after :
                          (/\ before[i].key = input'.price * side_multiplier(info.is_ask)
                           /\ after[j].key = before[i].key
                           /\ input'.qty > 0)
                             => after[j].count = IF before[i].qty - info.qty > 0
                                                 THEN before[i].count ELSE 1]_vars

\* with crossing disabled a modify has changed the qty of its order at the
\* same price: one Update, of the qty alone
C26_Witness ==
    /\ Alive
    /\ ~g_crossing_enabled
    /\ input.tick_type = "M"
    /\ Len(LevelDeltas(shm_deltas)) = 1
    /\ LevelDeltas(shm_deltas)[1].type = Update
    /\ LevelDeltas(shm_deltas)[1].count_delta = 0
    /\ LevelDeltas(shm_deltas)[1].qty_delta # 0

\* the next event is a regular cancel: of a known order that is neither the
\* aggressor of the active crossing nor a passive order it consumed from
RegularCancelNext ==
    /\ Alive /\ Alive'
    /\ input'.tick_type = "X"
    /\ input'.order_id \in DOMAIN Book.order_map
    /\ ~AggressorCancelNext
    /\ ~PassiveCancelNext

\* the deltas of a regular cancel but for the exchange-tick flag: a TickInfo
\* X with the order's side, price and qty, then, if the order's level is
\* among the 20 best, one Update of it with qty_delta = -qty and
\* count_delta = -1; and the order is off the id map
RegularCancelDeltas ==
    LET info == Book.order_map[input'.order_id]
        t == Deltas(shm_deltas')[1]
        ld == SelectSeq(LevelDeltas(shm_deltas'), LAMBDA d : ~IsRefill(d))
        idx == get_level_index(Side(Book, info.is_ask), info.price)
    IN /\ t.type = TickInfo /\ t.tick_type = "X"
       /\ tick_side(t) = info.is_ask
       /\ t.price = info.price /\ t.qty = info.qty
       /\ t.order_id = input'.order_id
       /\ IF idx < TopLevels
          THEN /\ Len(ld) = 1
               /\ ld[1].type = Update
               /\ LevelSide(ld[1]) = info.is_ask /\ LevelIndex(ld[1]) = idx
               /\ ld[1].qty_delta = -info.qty /\ ld[1].count_delta = -1
          ELSE ld = << >>
       /\ input'.order_id \notin DOMAIN Book'.order_map

\* C27 as stated: a regular cancel emits a TickInfo X with the exchange-tick
\* flag set and the order's side, price and qty, then one Update with
\* qty_delta = -qty and count_delta = -1 at the index of the order's level,
\* and erases the order.
C27_RegularCancel ==
    [][RegularCancelNext =>
         tick_is_exch(Deltas(shm_deltas')[1]) /\ RegularCancelDeltas]_vars

\* C27 amended: the exchange-tick flag of that TickInfo is clear.
C27_RegularCancelNotExch ==
    [][RegularCancelNext =>
         ~tick_is_exch(Deltas(shm_deltas')[1]) /\ RegularCancelDeltas]_vars

\* a regular cancel has taken one of two orders off a level: an Update of
\* count_delta -1, and the level is still there
C27_Witness ==
    /\ Alive
    /\ input.tick_type = "X"
    /\ shm_deltas # << >>
    /\ Deltas(shm_deltas)[1].tick_type = "X"
    /\ Deltas(shm_deltas)[1].qty > 0
    /\ ~tick_is_exch(Deltas(shm_deltas)[1])
    /\ Len(LevelDeltas(shm_deltas)) = 1
    /\ LevelDeltas(shm_deltas)[1].count_delta = -1
    /\ input.order_id \notin DOMAIN Book.order_map
    /\ Side(Book, tick_side(Deltas(shm_deltas)[1])).levels # << >>

\* the book as a handler's calls find it: the event's TickInfo is out
CallBook ==
    emit_tick_info(clear(Book), "N", FALSE, TRUE, 0, 0, 0, 0)

\* the deltas a call emitted: those of m2 past those of m
EmittedBy(m, m2) ==
    SubSeq(Deltas(m2.chunks), Len(Deltas(m.chunks)) + 1, Len(Deltas(m2.chunks)))

UpdateClass(d) == d.type = Update \/ (d.type = Insert /\ unpack_shift(d.side_index_shift))

\* at most n update-class deltas and at most n refills, and nothing else
UpdatesAndRefills(ds, n) ==
    /\ Len(SelectSeq(ds, UpdateClass)) <= n
    /\ Len(SelectSeq(ds, IsRefill)) <= n
    /\ \A i \in DOMAIN ds : UpdateClass(ds[i]) \/ IsRefill(ds[i])

\* the prices the calls are made at: those of the orders and the best of
\* each side
CallPrices == Prices \cup ({best_price(Book.bids), best_price(Book.asks)} \ {0})

\* the qty a cross call is asked for: up to all a side can hold
SweepQtys == 1..(MaxPrice * MaxQty)

\* every call of add_liquidity and of remove_liquidity on the book emits at
\* most one update-class delta and at most one refill
AddRemoveEmitOne ==
    \A is_ask \in BOOLEAN, p \in CallPrices, q \in Qtys, cd \in 0..1 :
       /\ UpdatesAndRefills(EmittedBy(CallBook, add_liquidity(CallBook, is_ask, p, q, cd)), 1)
       /\ UpdatesAndRefills(EmittedBy(CallBook, remove_liquidity(CallBook, is_ask, p, q, cd)), 1)

\* the entries a cross call appended to the fill log: one a level consumed
FillsAppended(m, is_ask, m2) ==
    Len(Side(m2, is_ask).cross_fills)
      - (IF Side(m, is_ask).pending_cross_fill_qty = 0 THEN 0
         ELSE Len(Side(m, is_ask).cross_fills))

\* C28 as stated: every call of add_liquidity, remove_liquidity or cross
\* emits at most one update-class delta plus at most one refill Insert,
\* however many levels the call touches.
C28_OneDeltaPerCall ==
    Alive =>
      /\ AddRemoveEmitOne
      /\ \A is_ask \in BOOLEAN, p \in CallPrices, q \in SweepQtys :
            UpdatesAndRefills(EmittedBy(CallBook, cross(CallBook, is_ask, p, q).m), 1)

\* the passive-side level deltas of the event just processed
PassiveDeltasNext ==
    SelectSeq(LevelDeltas(shm_deltas'), LAMBDA d : LevelSide(d) # input'.is_ask)

\* C28 amended: a call of add_liquidity or remove_liquidity emits at most
\* one update-class delta plus at most one refill; a call of cross emits one
\* Update, of count_delta 0 at index 0, for each level it consumes from, and
\* at most one refill for each; and the passive-side deltas of a crossing
\* new order are those of its cross call.
C28_OneDeltaPerLevel ==
    [][Alive =>
        /\ AddRemoveEmitOne
        /\ \A is_ask \in BOOLEAN, p \in CallPrices, q \in SweepQtys :
              LET c == cross(CallBook, is_ask, p, q).m
                  ds == EmittedBy(CallBook, c)
                  ups == SelectSeq(ds, UpdateClass)
              IN /\ UpdatesAndRefills(ds, FillsAppended(CallBook, is_ask, c))
                 /\ Len(ups) = FillsAppended(CallBook, is_ask, c)
                 /\ \A i \in DOMAIN ups :
                       /\ ups[i].type = Update
                       /\ LevelIndex(ups[i]) = 0 /\ LevelSide(ups[i]) = is_ask
                       /\ ups[i].count_delta = 0 /\ ups[i].qty_delta < 0
        /\ (Alive' /\ input'.tick_type = "N" /\ shm_deltas' # << >>
              /\ Deltas(shm_deltas')[1].tick_type = "A")
           => PassiveDeltasNext
                = EmittedBy(CallBook, cross(CallBook, ~input'.is_ask,
                                            input'.price, input'.qty).m)]_vars

\* a new order has crossed two levels: two Updates on the passive side
C28_Witness ==
    /\ Alive
    /\ input.tick_type = "N"
    /\ shm_deltas # << >>
    /\ Deltas(shm_deltas)[1].tick_type = "A"
    /\ Len(SelectSeq(LevelDeltas(shm_deltas),
                     LAMBDA d : d.type = Update /\ LevelSide(d) # input.is_ask)) = 2

\* C29: the snapshots of a trade event, whatever the trade's code (T, D or
\* E), have ltp equal to the trade's price and ltq equal to its fill qty,
\* and the snapshots of any other event keep the ltp and ltq the mirror had.
C29_TradeSetsLtp ==
    [][Alive /\ Alive' /\ delivered' # << >> =>
         \A i \in DOMAIN delivered' :
            IF input'.tick_type = "T"
            THEN delivered'[i].ltp = input'.price /\ delivered'[i].ltq = input'.qty
            ELSE delivered'[i].ltp = Mirror.ltp /\ delivered'[i].ltq = Mirror.ltq]_vars

\* the fill log one unit of qty at a time: the price of each unit, oldest
\* first
RECURSIVE UnitPrices(_)
UnitPrices(fills) ==
    IF fills = << >> THEN << >>
    ELSE LET f == fills[1]
         IN [i \in 1..f.qty |-> f.price] \o UnitPrices(Tail(fills))

RECURSIVE SumPrices(_)
SumPrices(ps) == IF ps = << >> THEN 0 ELSE ps[1] + SumPrices(Tail(ps))

\* the price and qty of the unconfirmed tail of a side's fill log: what is
\* left of the log after (total logged qty - pending qty) units from its head
TailVwap(pl) ==
    LET pending == pl.pending_cross_fill_qty
        units == UnitPrices(pl.cross_fills)
        tail == SubSeq(units, Len(units) - pending + 1, Len(units))
    IN IF pending = 0 THEN [price |-> 0, qty |-> 0]
       ELSE [price |-> SumPrices(tail) \div Len(tail), qty |-> pending]

\* C30: pending_cross_vwap of either side is (0, 0) when the side's pending
\* qty is 0, and otherwise the pending qty with the truncated quotient of
\* sum(price * qty) by sum(qty) over the unconfirmed tail of the fill log;
\* and the C of a cancel during a crossing carries that price and qty of the
\* passive side.
C30_VwapOfUnconfirmedTail ==
    [][Alive /\ Alive' =>
         /\ pending_cross_vwap(Book'.bids) = TailVwap(Book'.bids)
         /\ pending_cross_vwap(Book'.asks) = TailVwap(Book'.asks)
         /\ (shm_deltas' # << >> /\ Deltas(shm_deltas')[1].tick_type = "C")
            => /\ Deltas(shm_deltas')[1].price = TailVwap(PassiveSide(Book)).price
               /\ Deltas(shm_deltas')[1].qty = TailVwap(PassiveSide(Book)).qty]_vars

\* a trade has confirmed the head of a log of two prices: the price of the
\* unconfirmed tail, which a C would carry, is not that of the whole log
C30_Witness ==
    /\ Alive
    /\ input.tick_type = "T"
    /\ is_active(Book.pending_cross)
    /\ PassiveSide(Book).pending_cross_fill_qty > 0
    /\ SumQty(PassiveSide(Book).cross_fills) > PassiveSide(Book).pending_cross_fill_qty
    /\ pending_cross_vwap(PassiveSide(Book)).price
         # SumPrices(UnitPrices(PassiveSide(Book).cross_fills))
             \div SumQty(PassiveSide(Book).cross_fills)

\* C31: after every event the book's crossing state is active if and only if
\* the pending consumed qty of the side opposite the aggressor is above 0;
\* the pending consumed qty of the aggressor's own side is 0; and when the
\* crossing state is idle both sides' pending consumed qty are 0.
C31_ActiveIffPending ==
    Alive =>
      IF is_active(Book.pending_cross)
      THEN /\ PassiveSide(Book).pending_cross_fill_qty > 0
           /\ Side(Book, Book.pending_cross.aggressor_is_ask).pending_cross_fill_qty = 0
      ELSE /\ Book.bids.pending_cross_fill_qty = 0
           /\ Book.asks.pending_cross_fill_qty = 0

\* a trade has confirmed part of a crossing: the crossing is still active
\* and the rest is pending on the passive side
C31_Witness ==
    /\ Alive
    /\ input.tick_type = "T"
    /\ input.qty > 0
    /\ is_active(Book.pending_cross)
    /\ input.order_id = Book.pending_cross.aggressor_id
    /\ PassiveSide(Book).pending_cross_fill_qty > 0

\* C32: after every event has been applied on both sides, the receiver's
\* pending-aggressor record of the token is active if and only if the book's
\* crossing state is active, and when both are active they name the same
\* aggressor id, side and crossing price.
C32_ReceiverTracksCrossing ==
    Alive =>
      /\ agg_is_active(AggState) <=> is_active(Book.pending_cross)
      /\ (agg_is_active(AggState) /\ is_active(Book.pending_cross))
         => /\ AggState.aggressor_id = Book.pending_cross.aggressor_id
            /\ AggState.aggressor_is_ask = Book.pending_cross.aggressor_is_ask
            /\ AggState.aggressor_price = Book.pending_cross.aggressor_price

\* C33: with crossing enabled the book is not crossed after any event:
\* whenever both sides have a level, the best bid price is strictly below the
\* best ask price.
C33_BookNotCrossed ==
    (Alive /\ g_crossing_enabled /\ Book.bids.levels # << >> /\ Book.asks.levels # << >>)
        => best_price(Book.bids) < best_price(Book.asks)

\* a new order has crossed and rests with its residual while the other
\* side still has a level, beyond the order's price
C33_Witness ==
    /\ Alive /\ g_crossing_enabled
    /\ input.tick_type = "N"
    /\ is_active(Book.pending_cross)
    /\ Book.pending_cross.aggressor_on_level
    /\ Book.bids.levels # << >> /\ Book.asks.levels # << >>

\* both sides' levels are the aggregation of the id map, whose orders all
\* have qty left, as those of a well-formed stream have
LevelsAggregate(m) ==
    /\ \A id \in DOMAIN m.order_map : m.order_map[id].qty > 0
    /\ m.bids.levels = AggregatedLevels(m, FALSE)
    /\ m.asks.levels = AggregatedLevels(m, TRUE)

\* the next event is one of a well-formed stream: a new order has a nonzero
\* id that is not in the id map and a qty above 0, a modify has a qty above
\* 0, a trade names, where it names an order of the id map, a bid as its bid
\* and an ask as its ask, and fills no more than either has left
WellFormedNext ==
    LET om == Book.order_map
        rec == input'
    IN CASE rec.tick_type = "N" ->
              rec.order_id # 0 /\ rec.order_id \notin DOMAIN om /\ rec.qty > 0
         [] rec.tick_type = "M" -> rec.qty > 0
         [] rec.tick_type = "T" ->
              /\ rec.order_id \in DOMAIN om
                   => ~om[rec.order_id].is_ask /\ rec.qty <= om[rec.order_id].qty
              /\ rec.order_id2 \in DOMAIN om
                   => om[rec.order_id2].is_ask /\ rec.qty <= om[rec.order_id2].qty
         [] OTHER -> TRUE

\* C34: with crossing disabled the levels of both sides are the aggregation
\* of the id map at the start, and every event of a well-formed stream keeps
\* them so: a level at price p on side s iff an order record has (s, p), its
\* qty the sum of those records' qty, its count their number.
C34_LevelsAggregateIdMap ==
    /\ LevelsAggregate(Book)
    /\ [][(Alive /\ Alive' /\ ~g_crossing_enabled /\ LevelsAggregate(Book)
             /\ WellFormedNext)
            => LevelsAggregate(Book')]_vars

\* with crossing disabled a trade has filled part of a bid that rests on:
\* its level has an Update of the fill, and the levels aggregate the id map
C34_Witness ==
    /\ Alive /\ ~g_crossing_enabled
    /\ input.tick_type = "T" /\ input.qty > 0
    /\ input.order_id \in DOMAIN Book.order_map
    /\ LevelDeltas(shm_deltas) # << >>
    /\ LevelDeltas(shm_deltas)[1].type = Update
    /\ LevelDeltas(shm_deltas)[1].qty_delta = -input.qty
    /\ LevelsAggregate(Book)

\* a side has no speculative consumption on record
NoSpeculation(pl) ==
    /\ pl.pending_cross_fill_qty = 0
    /\ pl.pending_cross_fill_count = 0
    /\ pl.cross_fills = << >>

\* C35: with crossing disabled no event emits a TickInfo with code A, B, C
\* or S or a CrossingComplete, a call of cross returns 0 and leaves the book
\* as it was, the crossing state is never active, and the pending totals
\* and the fill logs of both sides stay empty.
C35_DisabledNeverCrosses ==
    (Alive /\ ~g_crossing_enabled) =>
      /\ \A i \in DOMAIN Deltas(shm_deltas) :
            LET d == Deltas(shm_deltas)[i]
            IN /\ d.type # CrossingComplete
               /\ d.type = TickInfo => d.tick_type \notin {"A", "B", "C", "S"}
      /\ \A is_ask \in BOOLEAN, p \in CallPrices, q \in SweepQtys :
            cross(CallBook, is_ask, p, q) = [m |-> CallBook, ret |-> 0]
      /\ ~is_active(Book.pending_cross)
      /\ NoSpeculation(Book.bids) /\ NoSpeculation(Book.asks)

\* with crossing disabled a new order has come to rest at a price that
\* reaches the best of the other side: the book is crossed, and nothing was
\* consumed
C35_Witness ==
    /\ Alive /\ ~g_crossing_enabled
    /\ input.tick_type = "N"
    /\ input.order_id \in DOMAIN Book.order_map
    /\ Deltas(shm_deltas)[1].tick_type = "N"
    /\ Book.bids.levels # << >> /\ Book.asks.levels # << >>
    /\ best_price(Book.bids) >= best_price(Book.asks)

\* the next event is ignored: a new order with id 0, a modify of an id that
\* is not in the id map, or a record whose tick type is none of N, M, X, T
IgnoredNext ==
    /\ Alive
    /\ \/ input'.tick_type = "N" /\ input'.order_id = 0
       \/ input'.tick_type = "M" /\ input'.order_id \notin DOMAIN Book.order_map
       \/ input'.tick_type \notin {"N", "M", "X", "T"}

\* C36: an ignored event aborts nothing, produces no chunk and no snapshot,
\* and leaves the levels, the id map, last_order_id, the crossing state, the
\* speculative fills and the receiver's mirror as they were, also while a
\* crossing is active.
C36_IgnoredEventsNoOp ==
    [][IgnoredNext =>
         /\ Alive'
         /\ shm_deltas' = << >>
         /\ delivered' = << >>
         /\ Book'.bids = Book.bids /\ Book'.asks = Book.asks
         /\ Book'.order_map = Book.order_map
         /\ Book'.last_order_id = Book.last_order_id
         /\ Book'.pending_cross = Book.pending_cross
         /\ Mirror' = Mirror]_vars

\* a new order with id 0 has come in while a crossing is active, and the
\* crossing goes on
C36_Witness ==
    /\ Alive
    /\ input.tick_type = "N" /\ input.order_id = 0
    /\ is_active(Book.pending_cross)
    /\ PassiveSide(Book).pending_cross_fill_qty > 0
    /\ shm_deltas = << >>

\* what the runner holds for a token, on the publisher's side and on the
\* receiver's, with whether it holds it
HeldFor(books, mirrors, aggs, t) ==
    [book |-> IF t \in DOMAIN books
              THEN <<BookState(books[t]), books[t].last_order_id>> ELSE << >>,
     mirror |-> IF t \in DOMAIN mirrors THEN <<mirrors[t]>> ELSE << >>,
     agg |-> IF t \in DOMAIN aggs THEN <<aggs[t]>> ELSE << >>]

\* C37: an event of one token leaves every other token's book (levels, id
\* map, last_order_id, crossing state, speculative fills), mirror and
\* pending-aggressor record as they were, and creates no book but its own
\* token's.
C37_TokenIsolation ==
    [][Alive /\ Alive' =>
         /\ \A t \in Tokens \ {input'.token} :
               HeldFor(mbos', reconstructed_books', aggressor_states', t)
                 = HeldFor(mbos, reconstructed_books, aggressor_states, t)
         /\ DOMAIN mbos' = DOMAIN mbos \cup {input'.token}
         /\ DOMAIN reconstructed_books' \subseteq DOMAIN reconstructed_books \cup {input'.token}
         /\ DOMAIN aggressor_states' \subseteq DOMAIN aggressor_states \cup {input'.token}]_vars

\* an event of one token has come in while the other token has a crossing
\* active on both sides of the transport
C37_Witness ==
    /\ Alive
    /\ input.token = Token
    /\ Token \in DOMAIN reconstructed_books
    /\ OtherToken \in DOMAIN mbos
    /\ is_active(mbos[OtherToken].pending_cross)
    /\ OtherToken \in DOMAIN aggressor_states
    /\ agg_is_active(aggressor_states[OtherToken])

\* the step is a call of process_deltas on its own
DeltasCallNext == input_idx' = input_idx /\ budget' = budget - 1

\* C38: the transport is a FIFO whatever the order of the calls: a call of
\* process_deltas applies the chunks of the oldest event not applied yet,
\* and applies nothing when every event has been applied; so no event's
\* chunks are dropped and none are applied twice.
C38_TransportFifo ==
    [][DeltasCallNext =>
         IF unapplied = << >>
         THEN /\ delivered' = << >>
              /\ reconstructed_books' = reconstructed_books
              /\ aggressor_states' = aggressor_states
         ELSE LET pd == process_deltas(Head(unapplied), reconstructed_books,
                                       aggressor_states)
              IN /\ delivered' = pd.delivered
                 /\ reconstructed_books' = pd.reconstructed_books
                 /\ aggressor_states' = pd.aggressor_states]_vars

\* ------------------------------------------------------- chunk codec
\* the bytes of the packed delta structs, as memcpy lays them in the payload
TickTypeCode ==
    [t \in {"A", "B", "C", "D", "E", "M", "N", "S", "T", "X"} |->
        CASE t = "A" -> 65 [] t = "B" -> 66 [] t = "C" -> 67 [] t = "D" -> 68
          [] t = "E" -> 69 [] t = "M" -> 77 [] t = "N" -> 78 [] t = "S" -> 83
          [] t = "T" -> 84 [] t = "X" -> 88]

TickTypeOf(code) == CHOOSE t \in DOMAIN TickTypeCode : TickTypeCode[t] = code

\* n bytes of an integer, least significant first, two's complement
RECURSIVE LittleEndian(_, _)
LittleEndian(v, n) ==
    IF n = 0 THEN << >> ELSE <<v % 256>> \o LittleEndian(v \div 256, n - 1)

RECURSIVE Unsigned(_)
Unsigned(bytes) ==
    IF bytes = << >> THEN 0 ELSE bytes[1] + 256 * Unsigned(Tail(bytes))

RECURSIVE Signed(_)
Signed(bytes) ==
    IF Len(bytes) = 1 THEN (IF bytes[1] >= 128 THEN bytes[1] - 256 ELSE bytes[1])
    ELSE bytes[1] + 256 * Signed(Tail(bytes))

EncodeDelta(d) ==
    CASE d.type = TickInfo ->
           <<TickInfo, TickTypeCode[d.tick_type], d.exch_side_flags, 0>>
               \o LittleEndian(d.record_idx, 4) \o LittleEndian(d.price, 8)
               \o LittleEndian(d.qty, 4) \o LittleEndian(d.order_id, 8)
               \o LittleEndian(d.order_id2, 8)
      [] d.type = Update ->
           <<Update, d.side_index>> \o LittleEndian(d.count_delta, 2)
               \o LittleEndian(d.qty_delta, 8)
      [] d.type = Insert ->
           <<Insert, d.side_index_shift, 0, 0>> \o LittleEndian(d.count, 4)
               \o LittleEndian(d.price, 8) \o LittleEndian(d.qty, 8)
      [] d.type = CrossingComplete -> <<CrossingComplete>>

RECURSIVE EncodeDeltas(_)
EncodeDeltas(ds) ==
    IF ds = << >> THEN << >> ELSE EncodeDelta(Head(ds)) \o EncodeDeltas(Tail(ds))

\* the bytes of a chunk's payload that deltas were copied to
UsedPayload(chunk) == Len(EncodeDeltas(chunk.payload))

\* the 64-byte frame: the payload starts as zeros and the deltas are copied
\* one after the other from offset 0
EncodeChunk(chunk) ==
    LET bytes == EncodeDeltas(chunk.payload)
    IN [token |-> chunk.token, flags |-> chunk.flags, num_deltas |-> chunk.num_deltas,
        payload |-> [i \in 1..PayloadSize |-> IF i <= Len(bytes) THEN bytes[i] ELSE 0]]

Field(payload, offset, from, n) == SubSeq(payload, offset + from + 1, offset + from + n)

\* the struct the receiver's reinterpret_cast reads at an offset
DecodeDelta(payload, offset) ==
    LET dtype == payload[offset + 1]
    IN CASE dtype = TickInfo ->
              [type |-> TickInfo,
               tick_type |-> TickTypeOf(payload[offset + 2]),
               exch_side_flags |-> payload[offset + 3],
               record_idx |-> Unsigned(Field(payload, offset, 4, 4)),
               price |-> Signed(Field(payload, offset, 8, 8)),
               qty |-> Signed(Field(payload, offset, 16, 4)),
               order_id |-> Signed(Field(payload, offset, 20, 8)),
               order_id2 |-> Signed(Field(payload, offset, 28, 8))]
         [] dtype = Update ->
              [type |-> Update,
               side_index |-> payload[offset + 2],
               count_delta |-> Signed(Field(payload, offset, 2, 2)),
               qty_delta |-> Signed(Field(payload, offset, 4, 8))]
         [] dtype = Insert ->
              [type |-> Insert,
               side_index_shift |-> payload[offset + 2],
               count |-> Signed(Field(payload, offset, 4, 4)),
               price |-> Signed(Field(payload, offset, 8, 8)),
               qty |-> Signed(Field(payload, offset, 16, 8))]
         [] dtype = CrossingComplete -> [type |-> CrossingComplete]

\* the receiver's loop over one chunk: num_deltas records, told apart by
\* their type byte, while the offset is inside the payload; a type byte it
\* does not know ends the chunk.  The receiver reads a struct without asking
\* whether it ends inside the payload: the decoding stops where one would not
RECURSIVE DecodeFrom(_, _, _)
DecodeFrom(frame, i, offset) ==
    IF i >= frame.num_deltas \/ offset >= PayloadSize THEN << >>
    ELSE LET dtype == frame.payload[offset + 1]
         IN IF dtype \notin {TickInfo, Update, Insert, CrossingComplete} THEN << >>
            ELSE IF offset + SizeOf([type |-> dtype]) > Len(frame.payload) THEN << >>
            ELSE <<DecodeDelta(frame.payload, offset)>>
                     \o DecodeFrom(frame, i + 1, offset + SizeOf([type |-> dtype]))

DecodeChunk(frame) == DecodeFrom(frame, 0, 0)

RECURSIVE DecodeChunks(_)
DecodeChunks(frames) ==
    IF frames = << >> THEN << >>
    ELSE DecodeChunk(Head(frames)) \o DecodeChunks(Tail(frames))

EncodeChunks(chunks) == [i \in DOMAIN chunks |-> EncodeChunk(chunks[i])]

\* C39: decoding the chunks of an event one after the other, each chunk's
\* num_deltas records told apart by their type byte, gives the deltas the
\* handlers emitted, in their order and with their field values; every chunk
\* decodes to the deltas appended to it, so none straddles two chunks; no
\* chunk uses more than 58 bytes of payload; every chunk has the event's token.
C39_CodecRoundTrip ==
    Alive =>
        /\ DecodeChunks(EncodeChunks(shm_deltas)) = Deltas(shm_deltas)
        /\ \A i \in DOMAIN shm_deltas :
              /\ DecodeChunk(EncodeChunk(shm_deltas[i])) = shm_deltas[i].payload
              /\ shm_deltas[i].num_deltas = Len(shm_deltas[i].payload)
              /\ UsedPayload(shm_deltas[i]) <= PayloadSize
              /\ shm_deltas[i].token = input.token

\* an event of the second token whose deltas take two chunks, one of them
\* with a negative field
C39_Witness ==
    /\ Alive
    /\ input.token = OtherToken
    /\ Len(shm_deltas) >= 2
    /\ \E i \in DOMAIN Deltas(shm_deltas) :
          /\ Deltas(shm_deltas)[i].type = Update
          /\ Deltas(shm_deltas)[i].qty_delta < 0
          /\ Deltas(shm_deltas)[i].count_delta < 0

\* the qty a side's log holds a confirmed or pending fill for
ConfirmedHead(pl) == SumQty(pl.cross_fills) - pl.pending_cross_fill_qty

\* C40: on each side the pending consumed qty is from 0 to the sum of the
\* qty of the entries of the side's fill log, so the confirmed head that
\* uncross and pending_cross_vwap skip is not negative; and when no crossing
\* is active after an event, both sides' logs are empty and both sides'
\* pending consumed qty and order count are 0.
C40_PendingWithinLog ==
    Alive =>
        /\ \A is_ask \in BOOLEAN :
              /\ Side(Book, is_ask).pending_cross_fill_qty >= 0
              /\ ConfirmedHead(Side(Book, is_ask)) >= 0
        /\ ~is_active(Book.pending_cross) =>
              \A is_ask \in BOOLEAN :
                  /\ Side(Book, is_ask).cross_fills = << >>
                  /\ Side(Book, is_ask).pending_cross_fill_qty = 0
                  /\ Side(Book, is_ask).pending_cross_fill_count = 0

\* a crossing of which a trade has confirmed a part and another part is pending
C40_Witness ==
    /\ Alive
    /\ is_active(Book.pending_cross)
    /\ input.tick_type = "T"
    /\ PassiveSide(Book).pending_cross_fill_qty > 0
    /\ ConfirmedHead(PassiveSide(Book)) > 0

====
